---- MODULE Spec2Model ----
(***************************************************************************)
(* A model of the Illimat rules engine (Illimat.Core): cards, decks,       *)
(* piles and their value algebra, fields and their PileSetsByValue index,  *)
(* the reversible actions and the pending/completed action collections.    *)
(*                                                                         *)
(* Lists are sequences (index 1 is the C# index 0, the front of a deck).   *)
(* Players and fields keep the code's indices 0..N-1.                      *)
(***************************************************************************)
EXTENDS Integers, Sequences, FiniteSets, TLC

VARIABLES
    nPlayers,    \* GameState.Players.Count
    deck,        \* GameState.CardDeck.Cards
    hand,        \* Player.Hand of each player
    piles,       \* Field.Piles of each field
    index,       \* Field.PileSetsByValue of each field, in insertion order
    revealed,    \* the cards whose IsRevealed is true
    loose,       \* cards held by the caller of Field.AddPile / RemovePile
    completed,   \* Game.CompletedActions (the top is the last element)
    pending,     \* Game.PendingActions (the front is the first element)
    err,         \* the exception that ended the last call, or "none"
    last,        \* the last call made: its name, arguments and the state it started from
    deck0,       \* the card deck as the game was constructed
    calls,       \* how many Field.AddPile / RemovePile calls callers have made
    vCards,      \* Pile constructor: the cards handed to new Pile(cards)
    vValues,     \* Pile constructor: the Values it stored
    vPc,         \* Pile constructor: "new" before, "built" after
    psv,         \* one run of Pile.GetPilesSetsValues (see PSVInit)
    dk,          \* a Deck<T> and the calls made on it (see DeckInit, RaceInit)
    lum,         \* GameState.LuminaryDeck, Field.Luminary of each field and
                 \* GameState.IllimatOkuses (see LuminaryInit, SetupInit)
    ActivePlayerIndex,  \* GameState.ActivePlayerIndex
    Seasons,            \* Field.Season of each field, as (int)Season
    IllimatLockers      \* GameState.IllimatLockers, a list of actors

gameVars == <<nPlayers, deck, hand, piles, index, revealed, loose, completed, pending, err,
              last, deck0, calls>>
pileVars == <<vCards, vValues, vPc, dk, lum>>
tableVars == <<ActivePlayerIndex, Seasons, IllimatLockers>>
vars == <<gameVars, pileVars, psv, tableVars>>

-----------------------------------------------------------------------------
(* Bounds of the model *)

\* model decks hold the ranks 2..MaxRank and the Fool
MaxRank == 3
\* model decks hold the suits 1..NumSuits
NumSuits == 2
\* the completed stack holds at most MaxStack actions
MaxStack == 3
\* the card-action specifications run a game of NumPlayers players
NumPlayers == 2
\* an InitialDeal is performed while PendingActions holds at most MaxPending actions
MaxPending == 4
\* a pile built by a caller holds at most MaxPileCards cards
MaxPileCards == 2
\* a Deck<T> under test holds at most MaxDeck cards
MaxDeck == 3
\* callers of a field make at most MaxCalls calls of SeedField.Perform,
\* Field.AddPile and Field.RemovePile; the turn driver performs at most
\* MaxCalls BeginTurn and EndTurn actions
MaxCalls == 3
\* Pile.GetPilesSetsValues is called on lists of at most MaxPiles piles
MaxPiles == 2
\* the luminary deck of the luminary specification holds at most MaxLuminaries
MaxLuminaries == 2
\* the model keeps the first MaxEmit subsets of a list that grows without end
MaxEmit == 3

-----------------------------------------------------------------------------
(* Card / Rank / Suit primitives *)

\* Rank.Fool; every other rank is the number it shows (2..13)
Fool == 14

\* (int)c.Rank of a rank that is not the Fool
IntOfRank(r) == r

\* RankSet.AllRanks, cut to MaxRank: Two, Three, ..., Fool
AllRanks == [i \in 1..MaxRank |-> IF i = MaxRank THEN Fool ELSE i + 1]

\* SuitSet, cut to NumSuits
SuitSet == [i \in 1..NumSuits |-> i]

\* Card.GetCards: every rank with every suit, ranks outermost
GetCards(suitSet) ==
    [i \in 1..(Len(AllRanks) * Len(suitSet)) |->
        [Rank |-> AllRanks[((i - 1) \div Len(suitSet)) + 1],
         Suit |-> suitSet[((i - 1) % Len(suitSet)) + 1]]]

AllCards == {GetCards(SuitSet)[i] : i \in 1..Len(GetCards(SuitSet))}

-----------------------------------------------------------------------------
(* List helpers (System.Collections.Generic.List<T>) *)

Contains(s, x) == \E i \in 1..Len(s) : s[i] = x

\* List<T>.Remove: removes the first element equal to x, if any
ListRemove(s, x) ==
    IF ~Contains(s, x) THEN s
    ELSE LET i == CHOOSE j \in 1..Len(s) : s[j] = x /\ \A k \in 1..(j - 1) : s[k] # x
         IN SubSeq(s, 1, i - 1) \o SubSeq(s, i + 1, Len(s))

RECURSIVE SumSeq(_)
SumSeq(s) == IF s = <<>> THEN 0 ELSE s[1] + SumSeq(Tail(s))

Reverse(s) == [i \in 1..Len(s) |-> s[Len(s) + 1 - i]]

-----------------------------------------------------------------------------
(* Deck<T> *)

\* a DrawUpTo that takes its cards from the back of the deck
DrawUpTo_FromBack(d, count) ==
    LET drawAmount == IF Len(d) < count THEN Len(d) ELSE count
        n == IF drawAmount < 0 THEN 0 ELSE drawAmount
    IN [draw |-> SubSeq(d, Len(d) - n + 1, Len(d)),
        deck |-> SubSeq(d, 1, Len(d) - n)]

\* Deck.DrawUpTo(count): the cards drawn and the deck left
DrawUpTo(d, count) ==
    LET drawAmount == IF Len(d) < count THEN Len(d) ELSE count
        \* for (i = 0; i < drawAmount; i++) runs no step for drawAmount <= 0
        n == IF drawAmount < 0 THEN 0 ELSE drawAmount
    IN [draw |-> SubSeq(d, 1, n),
        deck |-> SubSeq(d, n + 1, Len(d))]

-----------------------------------------------------------------------------
(* Pile value algebra *)

\* Pile.GetValues: for (i = 0; i < foolsCount * 13; i += 13) result.Add(othersSum + foolsCount + i)
GetValues(cards) ==
    LET IsOther(c) == c.Rank # Fool
        others == SelectSeq(cards, IsOther)
        othersValues == [i \in 1..Len(others) |-> IntOfRank(others[i].Rank)]
        othersSum == SumSeq(othersValues)
        foolsCount == Len(cards) - Len(othersValues)
    IN [n \in 1..foolsCount |-> othersSum + foolsCount + 13 * (n - 1)]

\* new Pile(cards): Values is computed once, at construction
NewPile(cards) == [Cards |-> cards, Values |-> GetValues(cards)]

-----------------------------------------------------------------------------
(* GameState: the part of it the card actions read and write *)

\* GameState.Fields = new Field[4]
NumFields == 4
FieldIds == 0..(NumFields - 1)

\* the rules' player counts (2 to 4); InitialDeal deals to Players[0..3]
MinPlayers == 2
MaxPlayers == 4

PlayerIds == 0..(nPlayers - 1)

\* DrawUp.MAX_CARDS
MAX_CARDS == 4

\* The mutable game state as one value, for the operators below
G == [deck |-> deck, hand |-> hand, piles |-> piles, index |-> index,
      revealed |-> revealed, err |-> err]

\* an action object: its constructor arguments and the Cards it captured
\* (drew stands for Cards != null).  pre is not a field of the object: it
\* records the game state in which the driver performed the action.
Action(kind, actor, target, count) ==
    [kind |-> kind, actor |-> actor, target |-> target, count |-> count,
     drew |-> FALSE, Cards |-> <<>>,
     pre |-> [deck |-> <<>>, hand |-> <<>>, piles |-> <<>>, index |-> <<>>,
              revealed |-> {}, err |-> "none"]]

-----------------------------------------------------------------------------
(* SeedField *)

\* SeedField.Perform: one single-card pile per drawn card, added to Field.Piles
\* directly (not through Field.AddPile)
SeedFieldPerform(g, a) ==
    LET d == DrawUpTo(g.deck, a.count)
        Cards == d.draw
        f == a.target
    IN [g |-> [g EXCEPT
                 !.deck = d.deck,
                 !.revealed = (@ \ {Cards[i] : i \in {j \in 1..Len(Cards) : ~(j - 1 < a.count)}})
                                 \cup {Cards[i] : i \in {j \in 1..Len(Cards) : j - 1 < a.count}},
                 !.piles[f] = @ \o [i \in 1..Len(Cards) |-> NewPile(<<Cards[i]>>)]],
        a |-> [a EXCEPT !.drew = TRUE, !.Cards = Cards]]

\* SeedField.Unwind, the loop over the reversed Cards from position i down:
\* .Single() throws unless exactly one pile of the field contains the card
RECURSIVE SeedFieldUnwindFrom(_, _, _)
SeedFieldUnwindFrom(g, a, i) ==
    IF i = 0 THEN g
    ELSE LET card == a.Cards[i]
             f == a.target
             holding == {j \in 1..Len(g.piles[f]) : Contains(g.piles[f][j].Cards, card)}
         IN IF Cardinality(holding) # 1
            THEN [g EXCEPT !.err = "InvalidOperationException"]
            ELSE LET pile == g.piles[f][CHOOSE j \in holding : TRUE]
                 IN SeedFieldUnwindFrom(
                        [g EXCEPT !.piles[f] = ListRemove(@, pile),
                                  !.revealed = @ \ {card},
                                  !.deck = <<card>> \o @],
                        a, i - 1)

\* a SeedField.Unwind that puts the cards back but leaves their piles in the field
SeedFieldUnwind_KeepsPiles(g, a) ==
    IF a.drew
    THEN [g EXCEPT !.deck = a.Cards \o @,
                   !.revealed = @ \ {a.Cards[i] : i \in 1..Len(a.Cards)}]
    ELSE g

SeedFieldUnwind(g, a) ==
    IF a.drew THEN SeedFieldUnwindFrom(g, a, Len(a.Cards)) ELSE g

-----------------------------------------------------------------------------
(* DealHand and DrawUp *)

\* the loop shared by DealHand.Unwind and DrawUp.Unwind, from position i down:
\* Hand.Remove(card); CardDeck.Cards.Insert(0, card)
RECURSIVE ReturnToDeckFrom(_, _, _, _)
ReturnToDeckFrom(g, p, cards, i) ==
    IF i = 0 THEN g
    ELSE ReturnToDeckFrom(
             [g EXCEPT !.hand[p] = ListRemove(@, cards[i]),
                       !.deck = <<cards[i]>> \o @],
             p, cards, i - 1)

\* a DealHand.Perform that hands out the cards without taking them off the deck
DealHandPerform_KeepsDeck(g, a) ==
    LET d == DrawUpTo(g.deck, a.count)
    IN [g |-> [g EXCEPT !.hand[a.target] = @ \o d.draw],
        a |-> [a EXCEPT !.drew = TRUE, !.Cards = d.draw]]

\* DealHand.Perform
DealHandPerform(g, a) ==
    LET d == DrawUpTo(g.deck, a.count)
    IN [g |-> [g EXCEPT !.deck = d.deck, !.hand[a.target] = @ \o d.draw],
        a |-> [a EXCEPT !.drew = TRUE, !.Cards = d.draw]]

\* a DealHand.Unwind that walks Cards in draw order, not reversed
DealHandUnwind_DrawOrder(g, a) ==
    IF a.drew THEN ReturnToDeckFrom(g, a.target, Reverse(a.Cards), Len(a.Cards)) ELSE g

\* DealHand.Unwind
DealHandUnwind(g, a) ==
    IF a.drew THEN ReturnToDeckFrom(g, a.target, a.Cards, Len(a.Cards)) ELSE g

\* a DrawUp.Perform that draws MAX_CARDS whatever the actor holds
DrawUpPerform_FullFour(g, a) ==
    LET d == DrawUpTo(g.deck, MAX_CARDS)
    IN [g |-> [g EXCEPT !.deck = d.deck, !.hand[a.actor] = @ \o d.draw],
        a |-> [a EXCEPT !.drew = TRUE, !.Cards = d.draw]]

\* DrawUp.Perform: the actor draws up to MAX_CARDS
DrawUpPerform(g, a) ==
    LET count0 == MAX_CARDS - Len(g.hand[a.actor])
        count == IF count0 < 0 THEN 0 ELSE count0
        d == DrawUpTo(g.deck, count)
    IN [g |-> [g EXCEPT !.deck = d.deck, !.hand[a.actor] = @ \o d.draw],
        a |-> [a EXCEPT !.drew = TRUE, !.Cards = d.draw]]

\* DrawUp.Unwind
DrawUpUnwind(g, a) ==
    IF a.drew THEN ReturnToDeckFrom(g, a.actor, a.Cards, Len(a.Cards)) ELSE g

-----------------------------------------------------------------------------
(* Field.PileSetsByValue: a Dictionary<int, IList<IList<Pile>>>, modelled as   *)
(* the sequence of its entries [key, sets] in enumeration (insertion) order.   *)

KeyPos(idx, k) == {q \in 1..Len(idx) : idx[q].key = k}

\* Field.AddPile, the three nested loops from entry e, pile set j, value m on.
\* PileSetsByValue[k] ??= ... first reads PileSetsByValue[k], which throws
\* KeyNotFoundException for an absent key.  (A value of a pile is at least 1,
\* so k is never the key whose list is being enumerated.)
RECURSIVE AddPileFrom(_, _, _, _, _, _)
AddPileFrom(g, f, pile, e, j, m) ==
    LET idx == g.index[f]
    IN IF e > Len(idx) THEN g
       ELSE IF j > Len(idx[e].sets) THEN AddPileFrom(g, f, pile, e + 1, 1, 1)
       ELSE IF m > Len(pile.Values) THEN AddPileFrom(g, f, pile, e, j + 1, 1)
       ELSE LET newPileSet == Append(idx[e].sets[j], pile)
                pileSetValue == idx[e].key + pile.Values[m]
                at == KeyPos(idx, pileSetValue)
            IN IF at = {}
               THEN [g EXCEPT !.err = "KeyNotFoundException"]
               ELSE AddPileFrom(
                        [g EXCEPT !.index[f][CHOOSE q \in at : TRUE].sets = Append(@, newPileSet)],
                        f, pile, e, j, m + 1)

\* Field.AddPile(pile)
FieldAddPile(g, f, pile) ==
    AddPileFrom([g EXCEPT !.piles[f] = Append(@, pile)], f, pile, 1, 1, 1)

\* the entries of idx that hold a pile set containing pile
Holding(idx, pile) ==
    {e \in 1..Len(idx) : \E j \in 1..Len(idx[e].sets) : Contains(idx[e].sets[j], pile)}

\* a Field.RemovePile that purges the index but leaves the pile in Piles
FieldRemovePile_KeepsPile(g, f, pile) ==
    [g EXCEPT !.index[f] =
        [e \in 1..Len(@) |->
            [key |-> @[e].key,
             sets |-> LET Keeps(ps) == ~Contains(ps, pile)
                      IN SelectSeq(@[e].sets, Keeps)]]]

\* Field.RemovePile(pile): the first pile set found to contain pile is removed
\* from the list being enumerated, and the enumerator's next MoveNext throws
\* InvalidOperationException (collection was modified)
FieldRemovePile(g, f, pile) ==
    LET g1 == [g EXCEPT !.piles[f] = ListRemove(@, pile)]
        idx == g.index[f]
        hold == Holding(idx, pile)
    IN IF hold = {} THEN g1
       ELSE LET e == CHOOSE x \in hold : \A y \in hold : x <= y
                j == CHOOSE x \in 1..Len(idx[e].sets) :
                         /\ Contains(idx[e].sets[x], pile)
                         /\ \A y \in 1..(x - 1) : ~Contains(idx[e].sets[y], pile)
            IN [g1 EXCEPT !.index[f][e].sets = ListRemove(@, idx[e].sets[j]),
                          !.err = "InvalidOperationException"]

-----------------------------------------------------------------------------
(* IAction.Perform / IAction.Unwind, by the kind of the action *)

Perform(g, a) ==
    CASE a.kind = "SeedField" -> SeedFieldPerform(g, a)
      [] a.kind = "DealHand"  -> DealHandPerform(g, a)
      [] a.kind = "DrawUp"    -> DrawUpPerform(g, a)

Unwind(g, a) ==
    CASE a.kind = "SeedField" -> SeedFieldUnwind(g, a)
      [] a.kind = "DealHand"  -> DealHandUnwind(g, a)
      [] a.kind = "DrawUp"    -> DrawUpUnwind(g, a)

-----------------------------------------------------------------------------
(* InitialDeal: a composite action, it only enqueues on Game.PendingActions *)

\* SeedField's default revealedCount
SEED_REVEALED == 3

\* InitialDeal.AddSeedFieldActions
AddSeedFieldActions(q, dealer) ==
    q \o [i \in 1..NumFields |-> Action("SeedField", dealer, i - 1, SEED_REVEALED)]

\* an AddDealHandActions that deals four cards to every player
AddDealHandActions_FourEach(q, n, dealer) ==
    q \o (IF n >= 2 THEN <<Action("DealHand", dealer, 1, 4)>> ELSE <<>>)
      \o (IF n >= 3 THEN <<Action("DealHand", dealer, 2, 4)>> ELSE <<>>)
      \o (IF n = 4 THEN <<Action("DealHand", dealer, 3, 4)>> ELSE <<>>)
      \o <<Action("DealHand", dealer, 0, 4)>>

\* InitialDeal.AddDealHandActions: Players[1], Players[2], Players[3], then Players[0]
AddDealHandActions(q, n, dealer) ==
    q \o (IF n >= 2 THEN <<Action("DealHand", dealer, 1, 3)>> ELSE <<>>)
      \o (IF n >= 3 THEN <<Action("DealHand", dealer, 2, 4)>> ELSE <<>>)
      \o (IF n = 4 THEN <<Action("DealHand", dealer, 3, 4)>> ELSE <<>>)
      \o <<Action("DealHand", dealer, 0, 4)>>

\* InitialDeal.AddPlaceOkusActions
AddPlaceOkusActions(q, n) ==
    q \o [i \in 1..n |-> Action("PlaceOkus", i - 1, i - 1, 0)]

\* InitialDeal.AddDealLuminaryActions
AddDealLuminaryActions(q, dealer) ==
    q \o [i \in 1..NumFields |-> Action("DealLuminary", dealer, i - 1, 0)]

\* an InitialDeal.Perform that places the okus tokens before it deals the hands
InitialDealPerform_OkusFirst(q, n, dealer) ==
    AddDealLuminaryActions(
        AddDealHandActions(
            AddPlaceOkusActions(AddSeedFieldActions(q, dealer), n), n, dealer),
        dealer)

\* InitialDeal.Perform on the pending queue q of a game of n players
InitialDealPerform(q, n, dealer) ==
    AddDealLuminaryActions(
        AddPlaceOkusActions(
            AddDealHandActions(AddSeedFieldActions(q, dealer), n, dealer), n),
        dealer)

\* the GameState constructor: InitialDeal(Players[0]).Perform, then
\* PendingActions.Enqueue(new BeginTurn(Players[1 % Players.Count]))
ConstructedPending(n) ==
    Append(InitialDealPerform(<<>>, n, 0), Action("BeginTurn", 1 % n, 1 % n, 0))

-----------------------------------------------------------------------------
(* The game as the driver runs it: an action is performed and pushed on     *)
(* CompletedActions; the top of CompletedActions is popped and unwound.     *)
(* An exception ends the game instance.                                     *)

NoAction == Action("none", 0, 0, 0)
NoPile == NewPile(<<>>)

\* last: the call, and run, the kinds of the actions unwound since the last Perform
Last(op, a, f, pile) ==
    [op |-> op, a |-> a, field |-> f, pile |-> pile,
     run |-> IF op = "Unwind" THEN Append(last.run, a.kind) ELSE <<>>,
     queue0 |-> IF op \in {"InitialDeal", "EndTurn"} THEN pending ELSE <<>>]

NoCall ==
    [op |-> "none", a |-> NoAction, field |-> 0, pile |-> NoPile, run |-> <<>>, queue0 |-> <<>>]

\* SeedField's revealedCount: the constructor's default
RevealedCounts == {3}
\* DealHand's count as InitialDeal gives it
DealCounts == {3, 4}

\* the decks a shuffle may leave: here, Card.GetCards and its reverse
Shuffles(s) == {s, Reverse(s)}

\* the Season enum in ring order; (int)Season is the position, from 0
SeasonRing == <<"Spring", "Summer", "Autumn", "Winter">>
IntOfSeason(name) == CHOOSE i \in 0..(Len(SeasonRing) - 1) : SeasonRing[i + 1] = name

\* GameState.Fields as constructed: Spring, Summer, Autumn, Winter
ConstructedSeasons ==
    [f \in FieldIds |-> IntOfSeason(<<"Spring", "Summer", "Autumn", "Winter">>[f + 1])]

\* ActivePlayerIndex, the fields' seasons and IllimatLockers as constructed
ConstructedTable ==
    /\ ActivePlayerIndex = 0
    /\ Seasons = ConstructedSeasons
    /\ IllimatLockers = <<>>

IdleRest ==
    /\ vCards = <<>> /\ vValues = <<>> /\ vPc = "idle"
    /\ psv = [pc |-> "idle"]
    /\ dk = [pc |-> "idle"]
    /\ lum = [pc |-> "idle"]
    /\ ConstructedTable

Init ==
    /\ nPlayers = NumPlayers
    /\ deck \in Shuffles(GetCards(SuitSet))
    /\ deck0 = deck
    /\ calls = 0
    /\ hand = [p \in PlayerIds |-> <<>>]
    /\ piles = [f \in FieldIds |-> <<>>]
    /\ index = [f \in FieldIds |-> <<>>]
    /\ revealed = {}
    /\ loose = {}
    /\ completed = <<>>
    /\ pending = ConstructedPending(nPlayers)
    /\ err = "none"
    /\ last = NoCall
    /\ IdleRest

SetG(g) ==
    /\ deck' = g.deck
    /\ hand' = g.hand
    /\ piles' = g.piles
    /\ index' = g.index
    /\ revealed' = g.revealed
    /\ err' = g.err

\* the driver performs action a and pushes it; c is the callers' call count after it
Do(a, c) ==
    /\ err = "none"
    /\ Len(completed) < MaxStack
    /\ LET r == Perform(G, a)
       IN /\ SetG(r.g)
          /\ completed' = Append(completed, [r.a EXCEPT !.pre = G])
          /\ last' = Last("Perform", [r.a EXCEPT !.pre = G], 0, NoPile)
    /\ calls' = c
    /\ UNCHANGED <<nPlayers, loose, pending, deck0, pileVars, psv, tableVars>>

PerformSeedField ==
    \E f \in FieldIds, n \in RevealedCounts : Do(Action("SeedField", 0, f, n), calls)

PerformDealHand ==
    \E p \in PlayerIds, n \in DealCounts : Do(Action("DealHand", 0, p, n), calls)

PerformDrawUp ==
    \E p \in PlayerIds : Do(Action("DrawUp", p, p, 0), calls)

\* the driver pops the top of CompletedActions and unwinds it
UnwindTop ==
    /\ err = "none"
    /\ completed # <<>>
    /\ LET a == completed[Len(completed)]
       IN /\ SetG(Unwind(G, a))
          /\ last' = Last("Unwind", a, 0, NoPile)
    /\ completed' = SubSeq(completed, 1, Len(completed) - 1)
    /\ UNCHANGED <<nPlayers, loose, pending, deck0, calls, pileVars, psv, tableVars>>

Next == PerformSeedField \/ PerformDealHand \/ PerformDrawUp \/ UnwindTop

Spec == Init /\ [][Next]_vars

-----------------------------------------------------------------------------
(* A field and its callers: besides SeedField and its Unwind, a caller       *)
(* removes a pile from a field (taking its cards) and adds a pile built from *)
(* cards it holds.                                                           *)

\* the card lists of 1..n distinct cards out of the set cs
RECURSIVE CardLists(_, _)
CardLists(cs, n) ==
    IF n = 0 THEN {}
    ELSE {<<c>> : c \in cs}
         \cup {<<ct[1]>> \o ct[2] :
                  ct \in {x \in cs \X CardLists(cs, n - 1) : ~Contains(x[2], x[1])}}

CardsOf(pile) == {pile.Cards[i] : i \in 1..Len(pile.Cards)}

\* a caller has SeedField performed on a field
SeedAField ==
    /\ calls < MaxCalls
    /\ \E f \in FieldIds, n \in RevealedCounts :
          Do(Action("SeedField", 0, f, n), calls + 1)

\* field.AddPile(new Pile(cards))
AddPile ==
    \E f \in FieldIds, cards \in CardLists(loose, MaxPileCards) :
        /\ err = "none"
        /\ calls < MaxCalls
        /\ SetG(FieldAddPile(G, f, NewPile(cards)))
        /\ loose' = loose \ {cards[i] : i \in 1..Len(cards)}
        /\ calls' = calls + 1
        /\ last' = Last("AddPile", NoAction, f, NewPile(cards))
        /\ UNCHANGED <<nPlayers, completed, pending, deck0, pileVars, psv, tableVars>>

\* field.RemovePile(pile) for a pile of the field; the caller takes its cards
RemovePile ==
    \E f \in FieldIds :
        \E i \in 1..Len(piles[f]) :
            /\ err = "none"
            /\ calls < MaxCalls
            /\ SetG(FieldRemovePile(G, f, piles[f][i]))
            /\ loose' = loose \cup CardsOf(piles[f][i])
            /\ calls' = calls + 1
            /\ last' = Last("RemovePile", NoAction, f, piles[f][i])
            /\ UNCHANGED <<nPlayers, completed, pending, deck0, pileVars, psv, tableVars>>

\* field.RemovePile(pile) once more, for the pile the last call removed
RemovePileAgain ==
    /\ err = "none"
    /\ calls < MaxCalls
    /\ last.op = "RemovePile"
    /\ SetG(FieldRemovePile(G, last.field, last.pile))
    /\ calls' = calls + 1
    /\ last' = Last("RemovePileAgain", NoAction, last.field, last.pile)
    /\ UNCHANGED <<nPlayers, loose, completed, pending, deck0, pileVars, psv, tableVars>>

FieldNext == SeedAField \/ UnwindTop \/ AddPile \/ RemovePile \/ RemovePileAgain

SpecField == Init /\ [][FieldNext]_vars

-----------------------------------------------------------------------------
(* The Pile constructor on its own: any pile of up to MaxPileCards + 1 cards *)

IdleGame ==
    /\ nPlayers = NumPlayers
    /\ deck = <<>> /\ deck0 = <<>> /\ calls = 0
    /\ hand = [p \in PlayerIds |-> <<>>]
    /\ piles = [f \in FieldIds |-> <<>>]
    /\ index = [f \in FieldIds |-> <<>>]
    /\ revealed = {} /\ loose = {}
    /\ completed = <<>> /\ pending = <<>>
    /\ err = "none"
    /\ last = NoCall
    /\ ConstructedTable

ValuesInit ==
    /\ IdleGame
    /\ vCards \in {<<>>} \cup CardLists(AllCards, MaxPileCards + 1)
    /\ vValues = <<>>
    /\ vPc = "new"
    /\ psv = [pc |-> "idle"]
    /\ dk = [pc |-> "idle"]
    /\ lum = [pc |-> "idle"]

\* new Pile(vCards)
BuildPile ==
    /\ vPc = "new"
    /\ vValues' = NewPile(vCards).Values
    /\ vPc' = "built"
    /\ UNCHANGED <<gameVars, vCards, dk, lum, psv, tableVars>>

ValuesNext == BuildPile

SpecValues == ValuesInit /\ [][ValuesNext]_vars

-----------------------------------------------------------------------------
(* The pending queue: games of 2 to 4 players; an InitialDeal of any dealer  *)
(* is performed; the driver dequeues the front action.                       *)

DealInit ==
    /\ nPlayers \in MinPlayers..MaxPlayers
    /\ deck = GetCards(SuitSet)
    /\ deck0 = deck
    /\ calls = 0
    /\ hand = [p \in PlayerIds |-> <<>>]
    /\ piles = [f \in FieldIds |-> <<>>]
    /\ index = [f \in FieldIds |-> <<>>]
    /\ revealed = {}
    /\ loose = {}
    /\ completed = <<>>
    /\ pending = ConstructedPending(nPlayers)
    /\ err = "none"
    /\ last = NoCall
    /\ IdleRest

\* the GameState and the Game's two collections as one value
World ==
    [CardDeck |-> deck, Hands |-> hand, Piles |-> piles, PileSetsByValue |-> index,
     Revealed |-> revealed, Seasons |-> Seasons, IllimatLockers |-> IllimatLockers,
     ActivePlayerIndex |-> ActivePlayerIndex,
     CompletedActions |-> completed, PendingActions |-> pending]

SetWorld(w) ==
    /\ deck' = w.CardDeck
    /\ hand' = w.Hands
    /\ piles' = w.Piles
    /\ index' = w.PileSetsByValue
    /\ revealed' = w.Revealed
    /\ Seasons' = w.Seasons
    /\ IllimatLockers' = w.IllimatLockers
    /\ ActivePlayerIndex' = w.ActivePlayerIndex
    /\ completed' = w.CompletedActions
    /\ pending' = w.PendingActions

\* InitialDeal.Perform(gameState): the four Add...Actions enqueue and do
\* nothing else
InitialDealOnState(w, n, dealer) ==
    [w EXCEPT !.PendingActions = InitialDealPerform(@, n, dealer)]

\* new InitialDeal(Players[dealer]).Perform(gameState)
PerformInitialDeal ==
    \E dealer \in PlayerIds :
        /\ Len(pending) <= MaxPending
        /\ SetWorld(InitialDealOnState(World, nPlayers, dealer))
        /\ last' = Last("InitialDeal", Action("InitialDeal", dealer, dealer, 0), 0, NoPile)
        /\ UNCHANGED <<nPlayers, loose, err, deck0, calls, pileVars, psv>>

\* PendingActions.Dequeue()
DequeuePending ==
    /\ pending # <<>>
    /\ pending' = Tail(pending)
    /\ last' = Last("Dequeue", pending[1], 0, NoPile)
    /\ UNCHANGED <<nPlayers, deck, hand, piles, index, revealed, loose, completed,
                   err, deck0, calls, pileVars, psv, tableVars>>

DealNext == PerformInitialDeal \/ DequeuePending

SpecDeal == DealInit /\ [][DealNext]_vars

-----------------------------------------------------------------------------
(* Pile.GetPilesSetsValues, one step per resumption of its iterators *)

\* 2^n
RECURSIVE Pow2(_)
Pow2(n) == IF n = 0 THEN 1 ELSE 2 * Pow2(n - 1)

\* IListExtensions.GetSubsets: the subset numbered count holds list[rs] for
\* every bit rs set in count
GetSubsets(list, count) ==
    LET In(rs) == (count \div Pow2(rs - 1)) % 2 = 1
        pos == SelectSeq([i \in 1..Len(list) |-> i], In)
    IN [i \in 1..Len(pos) |-> list[pos[i]]]

\* Cartesian: the enumerators that have a first element
Slots(subset) ==
    LET NonEmpty(vs) == vs # <<>>
    IN SelectSeq([i \in 1..Len(subset) |-> subset[i].Values], NonEmpty)

\* Cartesian: the foreach over the slots after a yield; more = FALSE is yield break
RECURSIVE CartesianAdvance(_, _, _)
CartesianAdvance(slots, pos, i) ==
    IF i > Len(slots) THEN [pos |-> pos, more |-> TRUE]
    ELSE IF pos[i] = Len(slots[i])
         THEN IF i = Len(slots)
              THEN [pos |-> pos, more |-> FALSE]
              ELSE CartesianAdvance(slots, [pos EXCEPT ![i] = 1], i + 1)
         ELSE [pos |-> [pos EXCEPT ![i] = @ + 1], more |-> TRUE]

\* the body of the foreach over subsetValues: the subset is appended to the
\* list under the key
RecordSubset(values, key, subset) ==
    IF KeyPos(values, key) = {}
    THEN Append(values, [key |-> key, sets |-> <<subset>>])
    ELSE [values EXCEPT ![CHOOSE q \in KeyPos(values, key) : TRUE].sets =
              IF Len(@) < MaxEmit THEN Append(@, subset) ELSE @]

\* the single-card piles a caller passes
PilesOfOne == {NewPile(cs) : cs \in CardLists(AllCards, 1)}

RECURSIVE PileLists(_)
PileLists(n) ==
    IF n = 0 THEN {<<>>}
    ELSE PileLists(n - 1)
         \cup {Append(ps, p) : ps \in {x \in PileLists(n - 1) : Len(x) = n - 1},
                               p \in PilesOfOne}

PSVInit ==
    /\ IdleGame
    /\ vCards = <<>> /\ vValues = <<>> /\ vPc = "idle"
    /\ dk = [pc |-> "idle"]
    /\ lum = [pc |-> "idle"]
    /\ \E ps \in PileLists(MaxPiles) :
          psv = [pc |-> "subsets", piles |-> ps, count |-> 0, subset |-> <<>>,
                 slots |-> <<>>, pos |-> <<>>, values |-> <<>>]

\* Pile.GetPilesSetsValues(psv.piles) runs up to its next resumption point
PSVStep ==
    /\ psv.pc \in {"subsets", "yield", "advance"}
    /\ psv' =
         CASE psv.pc = "subsets" ->
                IF psv.count >= Pow2(Len(psv.piles))
                THEN [psv EXCEPT !.pc = "done"]
                ELSE LET subset == GetSubsets(psv.piles, psv.count)
                     IN [psv EXCEPT !.pc = "yield",
                                    !.subset = subset,
                                    !.slots = Slots(subset),
                                    !.pos = [i \in 1..Len(Slots(subset)) |-> 1]]
           [] psv.pc = "yield" ->
                LET sum == SumSeq([i \in 1..Len(psv.slots) |-> psv.slots[i][psv.pos[i]]])
                IN [psv EXCEPT !.pc = "advance",
                               !.values = RecordSubset(@, sum, psv.subset)]
           [] psv.pc = "advance" ->
                LET r == CartesianAdvance(psv.slots, psv.pos, 1)
                IN IF r.more
                   THEN [psv EXCEPT !.pc = "yield", !.pos = r.pos]
                   ELSE [psv EXCEPT !.pc = "subsets", !.count = @ + 1]
    /\ UNCHANGED <<gameVars, pileVars, tableVars>>

PSVNext == PSVStep

\* the call is on the caller's thread and runs whenever it can
SpecPSV == PSVInit /\ [][PSVNext]_vars /\ WF_vars(PSVNext)

-----------------------------------------------------------------------------
(* Turns: BeginTurn and EndTurn *)

\* the C# remainder a % n, which takes the sign of a
CsMod(a, n) == IF a >= 0 THEN a % n ELSE -((-a) % n)

\* BeginTurn.Perform: the new ActivePlayerIndex, Players.IndexOf(Actor)
BeginTurnPerform(p) == p

\* BeginTurn.Unwind: the new ActivePlayerIndex
BeginTurnUnwind(p, n) == CsMod(BeginTurnPerform(p) - 1, n)

\* EndTurn.Perform: the loop runs i = 1 .. Players.Count - 2 and stops at the
\* first player with cards in hand; the ScoreRound is enqueued after the loop
\* however the loop ended
EndTurnPerform(q, n, active, hands) ==
    LET found == {i \in 1..(n - 2) : Len(hands[CsMod(active + i, n)]) > 0}
        first == CHOOSE i \in found : \A j \in found : i <= j
        scoreRound == Action("ScoreRound", 0, 0, 0)
    IN IF found = {}
       THEN Append(q, scoreRound)
       ELSE LET next == CsMod(active + first, n)
            IN Append(Append(q, Action("BeginTurn", next, next, 0)), scoreRound)

\* a game under way: the queue is drained and every hand is empty or holds a card
TurnInit ==
    /\ nPlayers \in MinPlayers..MaxPlayers
    /\ deck = <<>> /\ deck0 = <<>> /\ calls = 0
    /\ hand \in [PlayerIds -> {<<>>, <<GetCards(SuitSet)[1]>>}]
    /\ piles = [f \in FieldIds |-> <<>>]
    /\ index = [f \in FieldIds |-> <<>>]
    /\ revealed = {} /\ loose = {}
    /\ completed = <<>> /\ pending = <<>>
    /\ err = "none"
    /\ last = NoCall
    /\ IdleRest

\* new BeginTurn(Players[p]).Perform(gameState), pushed on CompletedActions
PerformBeginTurn ==
    \E p \in PlayerIds :
        /\ Len(completed) < MaxStack
        /\ calls < MaxCalls
        /\ calls' = calls + 1
        /\ ActivePlayerIndex' = BeginTurnPerform(p)
        /\ completed' = Append(completed,
                               [Action("BeginTurn", p, p, 0) EXCEPT !.pre = ActivePlayerIndex])
        /\ last' = Last("Perform",
                        [Action("BeginTurn", p, p, 0) EXCEPT !.pre = ActivePlayerIndex],
                        0, NoPile)
        /\ UNCHANGED <<nPlayers, deck, hand, piles, index, revealed, loose, pending,
                       err, deck0, pileVars, psv, Seasons, IllimatLockers>>

\* the BeginTurn on top of CompletedActions is popped and unwound
UnwindBeginTurn ==
    /\ completed # <<>>
    /\ LET a == completed[Len(completed)]
       IN /\ ActivePlayerIndex' = BeginTurnUnwind(a.actor, nPlayers)
          /\ last' = Last("Unwind", a, 0, NoPile)
    /\ completed' = SubSeq(completed, 1, Len(completed) - 1)
    /\ UNCHANGED <<nPlayers, deck, hand, piles, index, revealed, loose, pending,
                   err, deck0, calls, pileVars, psv, Seasons, IllimatLockers>>

\* an EndTurn.Perform that makes the player it found the active player at once
EndTurnOnState_AdvancesPlayer(w, n) ==
    LET found == {i \in 1..(n - 2) : Len(w.Hands[CsMod(w.ActivePlayerIndex + i, n)]) > 0}
    IN [w EXCEPT !.PendingActions = EndTurnPerform(@, n, w.ActivePlayerIndex, w.Hands),
                 !.ActivePlayerIndex =
                     IF found = {} THEN @
                     ELSE CsMod(@ + (CHOOSE i \in found : \A j \in found : i <= j), n)]

\* EndTurn.Perform(gameState): it reads ActivePlayerIndex and the hands, and
\* enqueues
EndTurnOnState(w, n) ==
    [w EXCEPT !.PendingActions = EndTurnPerform(@, n, w.ActivePlayerIndex, w.Hands)]

\* new EndTurn(Players[p]).Perform(gameState)
PerformEndTurn ==
    \E p \in PlayerIds :
        /\ Len(pending) + 2 <= MaxPending
        /\ calls < MaxCalls
        /\ calls' = calls + 1
        /\ SetWorld(EndTurnOnState(World, nPlayers))
        /\ last' = Last("EndTurn", Action("EndTurn", p, p, 0), 0, NoPile)
        /\ UNCHANGED <<nPlayers, loose, err, deck0, pileVars, psv>>

TurnNext == PerformBeginTurn \/ UnwindBeginTurn \/ PerformEndTurn \/ DequeuePending

SpecTurn == TurnInit /\ [][TurnNext]_vars

\* a game in which some player's BeginTurn has just been performed and pushed
\* on CompletedActions, the queue drained
CompositeInit ==
    /\ nPlayers \in MinPlayers..MaxPlayers
    /\ deck = <<>> /\ deck0 = <<>> /\ calls = 0
    /\ hand \in [PlayerIds -> {<<>>, <<GetCards(SuitSet)[1]>>}]
    /\ piles = [f \in FieldIds |-> <<>>]
    /\ index = [f \in FieldIds |-> <<>>]
    /\ revealed = {} /\ loose = {}
    /\ pending = <<>>
    /\ err = "none"
    /\ last = NoCall
    /\ \E p \in PlayerIds :
          /\ ActivePlayerIndex = BeginTurnPerform(p)
          /\ completed = <<[Action("BeginTurn", p, p, 0) EXCEPT !.pre = 0]>>
    /\ Seasons = ConstructedSeasons
    /\ IllimatLockers = <<>>
    /\ vCards = <<>> /\ vValues = <<>> /\ vPc = "idle"
    /\ psv = [pc |-> "idle"]
    /\ dk = [pc |-> "idle"]
    /\ lum = [pc |-> "idle"]

\* a round is dealt, on an empty queue, before any turn has ended
DealRound == pending = <<>> /\ calls = 0 /\ PerformInitialDeal

\* InitialDeal.Unwind: throw new NotImplementedException()
InitialDealUnwind(w) == [w |-> w, err |-> "NotImplementedException"]

\* EndTurn.Unwind: throw new NotImplementedException()
EndTurnUnwind(w) == [w |-> w, err |-> "NotImplementedException"]

\* Unwind is called on the composite action that was just performed
UnwindComposite ==
    /\ err = "none"
    /\ last.op \in {"InitialDeal", "EndTurn"}
    /\ LET r == IF last.op = "InitialDeal" THEN InitialDealUnwind(World)
                ELSE EndTurnUnwind(World)
       IN /\ SetWorld(r.w)
          /\ err' = r.err
    /\ last' = [last EXCEPT !.op = "UnwindComposite"]
    /\ UNCHANGED <<nPlayers, loose, deck0, calls, pileVars, psv>>

CompositeNext == DealRound \/ PerformEndTurn \/ DequeuePending \/ UnwindComposite

SpecComposite == CompositeInit /\ [][CompositeNext]_vars

-----------------------------------------------------------------------------
(* The Illimat: ChangeSeason *)

\* the part of the GameState that ChangeSeason reads and writes
Table == [Seasons |-> Seasons, IllimatLockers |-> IllimatLockers]

\* new ChangeSeason(actor, season, fieldIndex, lockIllimat); PreviousSeason
\* starts as default(Season), the season numbered 0
ChangeSeason(actor, season, fieldIndex, lockIllimat) ==
    [kind |-> "ChangeSeason", Actor |-> actor, Season |-> season,
     FieldIndex |-> fieldIndex, LockIllimat |-> lockIllimat,
     PreviousSeason |-> 0, pre |-> [Seasons |-> <<>>, IllimatLockers |-> <<>>]]

\* an AlignSeasons that sets the season of the field at fieldIndex only
AlignSeasons_OnlyField(ss, fieldIndex, season) ==
    [ss EXCEPT ![fieldIndex] = season]

\* an AlignSeasons that walks the ring backwards
AlignSeasons_Backwards(ss, fieldIndex, season) ==
    [f \in FieldIds |-> (season + 4 - ((f + 4 - fieldIndex) % 4)) % 4]

\* ChangeSeason.AlignSeasons: Fields[(FieldIndex + i) % 4].Season = (season + i) % 4
\* for i = 0..3
AlignSeasons(ss, fieldIndex, season) ==
    [f \in FieldIds |-> (season + ((f + 4 - fieldIndex) % 4)) % 4]

\* a ChangeSeason.Perform that realigns whatever IllimatLockers holds
ChangeSeasonPerform_IgnoresLock(t, a) ==
    [t |-> [Seasons |-> AlignSeasons(t.Seasons, a.FieldIndex, a.Season),
            IllimatLockers |-> IF a.LockIllimat THEN Append(t.IllimatLockers, a.Actor)
                               ELSE t.IllimatLockers],
     a |-> [a EXCEPT !.PreviousSeason = t.Seasons[a.FieldIndex]]]

\* ChangeSeason.Perform
ChangeSeasonPerform(t, a) ==
    LET free == t.IllimatLockers = <<>>
        a1 == IF free THEN [a EXCEPT !.PreviousSeason = t.Seasons[a.FieldIndex]] ELSE a
        ss == IF free /\ t.Seasons[a.FieldIndex] # a.Season
              THEN AlignSeasons(t.Seasons, a.FieldIndex, a.Season)
              ELSE t.Seasons
    IN [t |-> [Seasons |-> ss,
               IllimatLockers |-> IF a.LockIllimat THEN Append(t.IllimatLockers, a.Actor)
                                  ELSE t.IllimatLockers],
        a |-> a1]

\* a ChangeSeason.Unwind that empties IllimatLockers
ChangeSeasonUnwind_ClearsLockers(t, a) ==
    [Seasons |-> IF a.Season # a.PreviousSeason
                 THEN AlignSeasons(t.Seasons, a.FieldIndex, a.PreviousSeason)
                 ELSE t.Seasons,
     IllimatLockers |-> <<>>]

\* a ChangeSeason.Unwind that never realigns
ChangeSeasonUnwind_KeepsSeason(t, a) ==
    [t EXCEPT !.IllimatLockers = IF a.LockIllimat THEN ListRemove(@, a.Actor) ELSE @]

\* a ChangeSeason.Unwind that removes its actor whether or not it took a lock
ChangeSeasonUnwind_AlwaysRemoves(t, a) ==
    LET lockers == ListRemove(t.IllimatLockers, a.Actor)
    IN [Seasons |-> IF lockers = <<>> /\ a.Season # a.PreviousSeason
                    THEN AlignSeasons(t.Seasons, a.FieldIndex, a.PreviousSeason)
                    ELSE t.Seasons,
        IllimatLockers |-> lockers]

\* ChangeSeason.Unwind
ChangeSeasonUnwind(t, a) ==
    LET lockers == IF a.LockIllimat THEN ListRemove(t.IllimatLockers, a.Actor)
                   ELSE t.IllimatLockers
    IN [Seasons |-> IF lockers = <<>> /\ a.Season # a.PreviousSeason
                    THEN AlignSeasons(t.Seasons, a.FieldIndex, a.PreviousSeason)
                    ELSE t.Seasons,
        IllimatLockers |-> lockers]

\* the actors that change the season: A, B and a third
LockActors == 0..2
\* every season, as (int)Season
AllSeasons == 0..(Len(SeasonRing) - 1)
\* the driver turns the Illimat to Summer, at the first or the last field
SeasonsTurned == {IntOfSeason("Summer")}
FieldsTurned == {0, NumFields - 1}

\* every ChangeSeason a caller can construct
AllChangeSeasons ==
    {ChangeSeason(actor, season, f, lock) :
        actor \in LockActors, season \in AllSeasons, f \in FieldIds, lock \in BOOLEAN}

SeasonInit ==
    /\ nPlayers = NumPlayers
    /\ IdleGame
    /\ vCards = <<>> /\ vValues = <<>> /\ vPc = "idle"
    /\ psv = [pc |-> "idle"]
    /\ dk = [pc |-> "idle"]
    /\ lum = [pc |-> "idle"]

\* a ChangeSeason is performed and pushed on CompletedActions
PerformChangeSeason ==
    \E actor \in LockActors, season \in SeasonsTurned, f \in FieldsTurned, lock \in BOOLEAN :
        /\ Len(completed) < MaxStack
        /\ LET r == ChangeSeasonPerform(Table, ChangeSeason(actor, season, f, lock))
           IN /\ Seasons' = r.t.Seasons
              /\ IllimatLockers' = r.t.IllimatLockers
              /\ completed' = Append(completed, [r.a EXCEPT !.pre = Table])
              /\ last' = Last("Perform", [r.a EXCEPT !.pre = Table], 0, NoPile)
        /\ UNCHANGED <<nPlayers, deck, hand, piles, index, revealed, loose, pending,
                       err, deck0, calls, pileVars, psv, ActivePlayerIndex>>

\* the ChangeSeason on top of CompletedActions is popped and unwound
UnwindChangeSeason ==
    /\ completed # <<>>
    /\ LET a == completed[Len(completed)]
           u == ChangeSeasonUnwind(Table, a)
       IN /\ Seasons' = u.Seasons
          /\ IllimatLockers' = u.IllimatLockers
          /\ last' = Last("Unwind", a, 0, NoPile)
    /\ completed' = SubSeq(completed, 1, Len(completed) - 1)
    /\ UNCHANGED <<nPlayers, deck, hand, piles, index, revealed, loose, pending,
                   err, deck0, calls, pileVars, psv, ActivePlayerIndex>>

SeasonNext == PerformChangeSeason \/ UnwindChangeSeason

SpecSeason == SeasonInit /\ [][SeasonNext]_vars

-----------------------------------------------------------------------------
(* Deck<T>: DrawUpTo, DrawSpecific and Shuffle, one caller at a time *)

\* the positions (from 1) of the elements of cards equal to card
Matches(cards, card) == {i \in 1..Len(cards) : cards[i] = card}

RemoveAt(cards, i) == SubSeq(cards, 1, i - 1) \o SubSeq(cards, i + 1, Len(cards))

\* a DrawSpecific that returns normally when no element matches
DrawSpecific_Silent(cards, card) ==
    [Cards |-> cards, ret |-> <<>>, err |-> "none"]

\* Deck.DrawSpecific(card): SingleOrDefault gives null for no match, the match
\* if there is exactly one, and throws InvalidOperationException for several
DrawSpecific(cards, card) ==
    LET at == Matches(cards, card)
    IN IF at = {}
       THEN [Cards |-> cards, ret |-> <<>>, err |-> "ArgumentException"]
       ELSE IF Cardinality(at) > 1
       THEN [Cards |-> cards, ret |-> <<>>, err |-> "InvalidOperationException"]
       ELSE LET i == CHOOSE x \in at : TRUE
            IN [Cards |-> RemoveAt(cards, i),
                ret |-> [Key |-> i - 1, Value |-> cards[i]],
                err |-> "none"]

\* a random.Next(n) in place of random.Next(n + 1)
RandomNext_Short(n) == 0..(n - 1)

\* the values random.Next(n + 1) can return
RandomNext(n) == 0..n

\* a swap that writes Cards[n] only
Swap_Overwrite(cards, n, k) == [cards EXCEPT ![n + 1] = cards[k + 1]]

\* (Cards[n], Cards[k]) = (Cards[k], Cards[n]), n and k counted from 0
Swap(cards, n, k) == [cards EXCEPT ![n + 1] = cards[k + 1], ![k + 1] = cards[n + 1]]

\* the cards a deck under test can hold: one suit of the model deck
DeckAlphabet == {c \in AllCards : c.Suit = SuitSet[1]}

RECURSIVE DecksOf(_)
DecksOf(n) ==
    IF n = 0 THEN {<<>>}
    ELSE DecksOf(n - 1)
         \cup {Append(d, c) : d \in {x \in DecksOf(n - 1) : Len(x) = n - 1},
                              c \in DeckAlphabet}

\* new Deck<T>(cards), before any call
DeckInit ==
    /\ IdleGame
    /\ vCards = <<>> /\ vValues = <<>> /\ vPc = "idle"
    /\ lum = [pc |-> "idle"]
    /\ psv = [pc |-> "idle"]
    /\ \E cards \in DecksOf(MaxDeck) :
          dk = [pc |-> "ready", Cards |-> cards, Cards0 |-> cards, op |-> "none",
                arg |-> 0, ret |-> <<>>, err |-> "none", n |-> 0, draws |-> <<>>]

\* deck.DrawUpTo(count)
CallDrawUpTo ==
    /\ dk.pc = "ready"
    /\ \E count \in (-1)..(MaxDeck + 1) :
          LET r == DrawUpTo(dk.Cards, count)
          IN dk' = [dk EXCEPT !.pc = "returned", !.op = "DrawUpTo", !.arg = count,
                              !.Cards = r.deck, !.ret = r.draw]
    /\ UNCHANGED <<gameVars, vCards, vValues, vPc, lum, psv, tableVars>>

\* deck.DrawSpecific(card)
CallDrawSpecific ==
    /\ dk.pc = "ready"
    /\ \E card \in DeckAlphabet :
          LET r == DrawSpecific(dk.Cards, card)
          IN dk' = [dk EXCEPT !.pc = "returned", !.op = "DrawSpecific", !.arg = card,
                              !.Cards = r.Cards, !.ret = r.ret, !.err = r.err]
    /\ UNCHANGED <<gameVars, vCards, vValues, vPc, lum, psv, tableVars>>

\* deck.Shuffle(random) is entered: n = Cards.Count
ShuffleBegin ==
    /\ dk.pc = "ready"
    /\ dk' = [dk EXCEPT !.pc = "shuffling", !.op = "Shuffle", !.n = Len(dk.Cards)]
    /\ UNCHANGED <<gameVars, vCards, vValues, vPc, lum, psv, tableVars>>

\* one turn of the while loop of Shuffle, or its exit
ShuffleStep ==
    /\ dk.pc = "shuffling"
    /\ IF dk.n > 1
       THEN \E k \in RandomNext(dk.n - 1) :
               dk' = [dk EXCEPT !.n = dk.n - 1,
                                !.Cards = Swap(dk.Cards, dk.n - 1, k),
                                !.draws = Append(@, k)]
       ELSE dk' = [dk EXCEPT !.pc = "returned"]
    /\ UNCHANGED <<gameVars, vCards, vValues, vPc, lum, psv, tableVars>>

DeckNext == CallDrawUpTo \/ CallDrawSpecific \/ ShuffleBegin \/ ShuffleStep

SpecDeck == DeckInit /\ [][DeckNext]_vars

-----------------------------------------------------------------------------
(* Deck<T> under concurrent callers: each thread runs one call, statement by
   statement; lock(Cards) is the only exclusion *)

Threads == {1, 2}

\* a thread about to make its call
Caller(call, count) ==
    [call |-> call, pc |-> "start", count |-> count, drawAmount |-> 0, i |-> 0,
     draw |-> <<>>, ret |-> <<>>, err |-> "none", n |-> 0, k |-> 0, hold |-> <<>>]

\* decks of different cards
DistinctDecks == {d \in DecksOf(MaxDeck) : \A i, j \in 1..Len(d) : d[i] = d[j] => i = j}

\* one deck shared by thread 1, which calls DrawUpTo, and thread 2, which
\* calls DrawUpTo or Shuffle
RaceInit ==
    /\ IdleGame
    /\ vCards = <<>> /\ vValues = <<>> /\ vPc = "idle"
    /\ lum = [pc |-> "idle"]
    /\ psv = [pc |-> "idle"]
    /\ \E cards \in DistinctDecks, c1 \in 1..MaxDeck :
       \E second \in {Caller("DrawUpTo", c) : c \in 1..MaxDeck} \cup {Caller("Shuffle", 0)} :
          dk = [pc |-> "race", Cards |-> cards, Cards0 |-> cards, lock |-> 0,
                th |-> <<Caller("DrawUpTo", c1), second>>]

\* DrawUpTo line 28: drawAmount is computed from Cards.Count before the lock
DrawUpToEnter ==
    /\ dk.pc = "race"
    /\ \E t \in Threads :
          /\ dk.th[t].call = "DrawUpTo" /\ dk.th[t].pc = "start"
          /\ dk' = [dk EXCEPT !.th[t].pc = "lock",
                              !.th[t].drawAmount =
                                  IF Len(dk.Cards) < dk.th[t].count THEN Len(dk.Cards)
                                  ELSE dk.th[t].count]
    /\ UNCHANGED <<gameVars, vCards, vValues, vPc, lum, psv, tableVars>>

\* DrawUpTo line 30: lock(Cards) is taken when no thread holds it
DrawUpToLock ==
    /\ dk.pc = "race"
    /\ dk.lock = 0
    /\ \E t \in Threads :
          /\ dk.th[t].call = "DrawUpTo" /\ dk.th[t].pc = "lock"
          /\ dk' = [dk EXCEPT !.lock = t, !.th[t].pc = "loop"]
    /\ UNCHANGED <<gameVars, vCards, vValues, vPc, lum, psv, tableVars>>

\* DrawUpTo lines 32-39: one turn of the for loop, or its exit and the return;
\* Cards[0] of an empty list throws, and leaving the lock block releases it
DrawUpToLoop ==
    /\ dk.pc = "race"
    /\ \E t \in Threads :
          /\ dk.th[t].call = "DrawUpTo" /\ dk.th[t].pc = "loop"
          /\ IF dk.th[t].i < dk.th[t].drawAmount
             THEN IF dk.Cards = <<>>
                  THEN dk' = [dk EXCEPT !.lock = 0, !.th[t].pc = "failed",
                                        !.th[t].err = "ArgumentOutOfRangeException"]
                  ELSE dk' = [dk EXCEPT !.Cards = Tail(@),
                                        !.th[t].draw = Append(@, Head(dk.Cards)),
                                        !.th[t].i = @ + 1]
             ELSE dk' = [dk EXCEPT !.lock = 0, !.th[t].pc = "done",
                                   !.th[t].ret = dk.th[t].draw]
    /\ UNCHANGED <<gameVars, vCards, vValues, vPc, lum, psv, tableVars>>

\* Shuffle line 16: n = Cards.Count, with no lock
RaceShuffleEnter ==
    /\ dk.pc = "race"
    /\ \E t \in Threads :
          /\ dk.th[t].call = "Shuffle" /\ dk.th[t].pc = "start"
          /\ dk' = [dk EXCEPT !.th[t].pc = "test", !.th[t].n = Len(dk.Cards)]
    /\ UNCHANGED <<gameVars, vCards, vValues, vPc, lum, psv, tableVars>>

\* Shuffle lines 17-21: the loop test, n--, the draw of k and the reads of
\* Cards[k] and Cards[n]; an index past the end of the list throws
RaceShuffleRead ==
    /\ dk.pc = "race"
    /\ \E t \in Threads :
          /\ dk.th[t].call = "Shuffle" /\ dk.th[t].pc = "test"
          /\ IF dk.th[t].n > 1
             THEN \E k \in RandomNext(dk.th[t].n - 1) :
                     LET n == dk.th[t].n - 1
                     IN IF n >= Len(dk.Cards)
                        THEN dk' = [dk EXCEPT !.th[t].pc = "failed", !.th[t].n = n,
                                              !.th[t].k = k,
                                              !.th[t].err = "ArgumentOutOfRangeException"]
                        ELSE dk' = [dk EXCEPT !.th[t].pc = "write", !.th[t].n = n,
                                              !.th[t].k = k,
                                              !.th[t].hold = <<dk.Cards[k + 1], dk.Cards[n + 1]>>]
             ELSE dk' = [dk EXCEPT !.th[t].pc = "done"]
    /\ UNCHANGED <<gameVars, vCards, vValues, vPc, lum, psv, tableVars>>

\* Shuffle line 21: Cards[n] and then Cards[k] are assigned the values read;
\* the first assignment throws when the list no longer has an index n
RaceShuffleWrite ==
    /\ dk.pc = "race"
    /\ \E t \in Threads :
          /\ dk.th[t].call = "Shuffle" /\ dk.th[t].pc = "write"
          /\ IF dk.th[t].n >= Len(dk.Cards)
             THEN dk' = [dk EXCEPT !.th[t].pc = "failed",
                                   !.th[t].err = "ArgumentOutOfRangeException"]
             ELSE dk' = [dk EXCEPT !.th[t].pc = "test",
                                   !.Cards = [@ EXCEPT ![dk.th[t].n + 1] = dk.th[t].hold[1],
                                                       ![dk.th[t].k + 1] = dk.th[t].hold[2]]]
    /\ UNCHANGED <<gameVars, vCards, vValues, vPc, lum, psv, tableVars>>

RaceNext ==
    \/ DrawUpToEnter \/ DrawUpToLock \/ DrawUpToLoop
    \/ RaceShuffleEnter \/ RaceShuffleRead \/ RaceShuffleWrite

SpecDeckRace == RaceInit /\ [][RaceNext]_vars

-----------------------------------------------------------------------------
(* Luminaries: DealLuminary and DiscardLuminary, and the action kinds whose
   Perform and Unwind are not written *)

\* a Luminary? that is null; a luminary is its position (from 1) in
\* LuminarySet.AllLuminaries
NoLuminary == 0

\* LuminarySet.AllLuminaries, by position: 8 base, 6 Crane Wife, 2 promo
NumLuminaries == 16

\* the luminary of a DealLuminary or DiscardLuminary action object: its
\* Luminary / DiscardedLuminary property, null until Perform sets it
LuminaryAction(kind, actor, field) ==
    [kind |-> kind, actor |-> actor, target |-> field, Luminary |-> NoLuminary,
     pre |-> <<>>]

\* DealLuminary.Perform: Luminary = LuminaryDeck.DrawUpTo(1).FirstOrDefault();
\* Field.Luminary = Luminary
DealLuminaryPerform(l, a) ==
    LET d == DrawUpTo(l.LuminaryDeck, 1)
        Luminary == IF d.draw = <<>> THEN NoLuminary ELSE d.draw[1]
    IN [lum |-> [l EXCEPT !.LuminaryDeck = d.deck, !.FieldLuminary[a.target] = Luminary],
        a |-> [a EXCEPT !.Luminary = Luminary]]

\* DealLuminary.Unwind
DealLuminaryUnwind(l, a) ==
    IF a.Luminary # NoLuminary
    THEN [l EXCEPT !.FieldLuminary[a.target] = NoLuminary,
                   !.LuminaryDeck = <<a.Luminary>> \o @]
    ELSE l

\* DiscardLuminary.Perform: with a luminary in the field it clears the field
\* and returns; DiscardedLuminary is assigned only on the other path, from a
\* luminary that is null
DiscardLuminaryPerform(l, a) ==
    LET luminary == l.FieldLuminary[a.target]
    IN IF luminary # NoLuminary
       THEN [lum |-> [l EXCEPT !.FieldLuminary[a.target] = NoLuminary], a |-> a]
       ELSE [lum |-> l, a |-> [a EXCEPT !.Luminary = luminary]]

\* DiscardLuminary.Unwind
DiscardLuminaryUnwind(l, a) ==
    IF a.Luminary # NoLuminary
    THEN [l EXCEPT !.FieldLuminary[a.target] = a.Luminary]
    ELSE l

\* the action kinds whose Perform and Unwind only throw
UnimplementedKinds ==
    {"HarvestCards", "SowCards", "StockpileCards", "StealOkus", "StealCardFromHand",
     "ExchangeCard", "CollectOkus", "CollectLuminary"}

\* the whole state an action is handed: the World and the luminaries
Everything == [World |-> World, lum |-> lum]

\* a Perform that returns without doing anything
UnimplementedPerform_Silent(kind, e) == [e |-> e, err |-> "none"]

\* Perform of an unimplemented kind: throw new NotImplementedException()
UnimplementedPerform(kind, e) == [e |-> e, err |-> "NotImplementedException"]

\* Unwind of an unimplemented kind: throw new NotImplementedException()
UnimplementedUnwind(kind, e) == [e |-> e, err |-> "NotImplementedException"]

\* luminary decks of at most MaxLuminaries luminaries, all different, in any order
LuminaryDecks ==
    {d \in UNION {[1..k -> 1..MaxLuminaries] : k \in 0..MaxLuminaries} :
        \A i, j \in 1..Len(d) : d[i] = d[j] => i = j}

\* a game whose queue is drained, before any luminary is dealt
LuminaryInit ==
    /\ nPlayers = NumPlayers
    /\ deck = <<>> /\ deck0 = <<>> /\ calls = 0
    /\ hand = [p \in PlayerIds |-> <<>>]
    /\ piles = [f \in FieldIds |-> <<>>]
    /\ index = [f \in FieldIds |-> <<>>]
    /\ revealed = {} /\ loose = {}
    /\ completed = <<>> /\ pending = <<>>
    /\ err = "none"
    /\ last = NoCall
    /\ vCards = <<>> /\ vValues = <<>> /\ vPc = "idle"
    /\ psv = [pc |-> "idle"]
    /\ dk = [pc |-> "idle"]
    /\ ConstructedTable
    /\ \E d \in LuminaryDecks :
          lum = [LuminaryDeck |-> d,
                 FieldLuminary |-> [f \in FieldIds |-> NoLuminary],
                 IllimatOkuses |-> <<>>]

\* the driver performs a DealLuminary or a DiscardLuminary and pushes it
PerformLuminary ==
    /\ err = "none"
    /\ Len(completed) < MaxStack
    /\ \E kind \in {"DealLuminary", "DiscardLuminary"}, f \in FieldsTurned :
          LET a == LuminaryAction(kind, 0, f)
              r == IF kind = "DealLuminary" THEN DealLuminaryPerform(lum, a)
                   ELSE DiscardLuminaryPerform(lum, a)
          IN /\ lum' = r.lum
             /\ completed' = Append(completed, [r.a EXCEPT !.pre = Everything])
             /\ last' = [NoCall EXCEPT !.op = "Perform", !.a = [r.a EXCEPT !.pre = Everything]]
    /\ UNCHANGED <<nPlayers, deck, hand, piles, index, revealed, loose, pending, err,
                   deck0, calls, vCards, vValues, vPc, dk, psv, tableVars>>

\* the driver pops the top of CompletedActions and unwinds it
UnwindLuminary ==
    /\ err = "none"
    /\ completed # <<>>
    /\ LET a == completed[Len(completed)]
       IN /\ lum' = IF a.kind = "DealLuminary" THEN DealLuminaryUnwind(lum, a)
                    ELSE DiscardLuminaryUnwind(lum, a)
          /\ last' = [NoCall EXCEPT !.op = "Unwind", !.a = a]
    /\ completed' = SubSeq(completed, 1, Len(completed) - 1)
    /\ UNCHANGED <<nPlayers, deck, hand, piles, index, revealed, loose, pending, err,
                   deck0, calls, vCards, vValues, vPc, dk, psv, tableVars>>

\* what a throwing call leaves behind: the state it returns and its exception
Thrown(op, kind, r) ==
    /\ SetWorld(r.e.World)
    /\ lum' = r.e.lum
    /\ err' = r.err
    /\ last' = [NoCall EXCEPT !.op = op,
                              !.a = [LuminaryAction(kind, 0, 0) EXCEPT !.pre = Everything]]
    /\ UNCHANGED <<nPlayers, loose, deck0, calls, vCards, vValues, vPc, dk, psv>>

\* Perform is called on an action of an unimplemented kind
PerformUnimplemented ==
    /\ err = "none"
    /\ \E kind \in UnimplementedKinds :
          Thrown("PerformUnimplemented", kind, UnimplementedPerform(kind, Everything))

\* Unwind is called on an action of an unimplemented kind
UnwindUnimplemented ==
    /\ err = "none"
    /\ \E kind \in UnimplementedKinds :
          Thrown("UnwindUnimplemented", kind, UnimplementedUnwind(kind, Everything))

LuminaryNext ==
    PerformLuminary \/ UnwindLuminary \/ PerformUnimplemented \/ UnwindUnimplemented

SpecLuminary == LuminaryInit /\ [][LuminaryNext]_vars

-----------------------------------------------------------------------------
(* Unwind called out of order: on an action that is not the top of
   CompletedActions, or on one that was never performed *)

\* the BeginTurn actions Unwind must not be called on: those on
\* CompletedActions below the top, and one freshly constructed for any player
NotToUnwind ==
    {completed[i] : i \in 1..(Len(completed) - 1)}
    \cup {[Action("BeginTurn", p, p, 0) EXCEPT !.pre = 0] : p \in PlayerIds}

\* BeginTurn.Unwind is called on such an action: the method has no way to
\* tell, and CompletedActions is not touched
UnwindBeginTurnOutOfOrder ==
    /\ calls < MaxCalls
    /\ calls' = calls + 1
    /\ \E a \in NotToUnwind :
          /\ ActivePlayerIndex' = BeginTurnUnwind(a.actor, nPlayers)
          /\ last' = [NoCall EXCEPT !.op = "UnwindOutOfOrder",
                                    !.a = [a EXCEPT !.pre = [ActivePlayerIndex |-> ActivePlayerIndex,
                                                             Table |-> Table]]]
    /\ UNCHANGED <<nPlayers, deck, hand, piles, index, revealed, loose, completed, pending,
                   err, deck0, pileVars, psv, Seasons, IllimatLockers>>

\* ChangeSeason.Unwind is called on a ChangeSeason that was never performed
\* (its PreviousSeason is the default of the enum)
UnwindChangeSeasonUnperformed ==
    /\ calls < MaxCalls
    /\ calls' = calls + 1
    /\ \E actor \in LockActors, season \in SeasonsTurned, f \in FieldsTurned, lock \in BOOLEAN :
          LET a == ChangeSeason(actor, season, f, lock)
              u == ChangeSeasonUnwind(Table, a)
          IN /\ Seasons' = u.Seasons
             /\ IllimatLockers' = u.IllimatLockers
             /\ last' = [NoCall EXCEPT !.op = "UnwindOutOfOrder",
                                       !.a = [a EXCEPT !.pre = [ActivePlayerIndex |-> ActivePlayerIndex,
                                                                Table |-> Table]]]
    /\ UNCHANGED <<nPlayers, deck, hand, piles, index, revealed, loose, completed, pending,
                   err, deck0, pileVars, psv, ActivePlayerIndex>>

MisuseNext ==
    \/ PerformBeginTurn \/ UnwindBeginTurn
    \/ UnwindBeginTurnOutOfOrder \/ UnwindChangeSeasonUnperformed

SpecMisuse == TurnInit /\ [][MisuseNext]_vars

-----------------------------------------------------------------------------
(* A newly constructed Game, and the driver that dequeues each pending action,
   performs it and pushes it on CompletedActions *)

\* RankSet.AllRanks in full: Two .. King and the Fool
NumRanks == 13
FullRanks == [i \in 1..NumRanks |-> IF i = NumRanks THEN Fool ELSE i + 1]

\* SuitSet.AllSuits and SuitSet.NoStars, by position
NumAllSuits == 5
NumNoStars == 4

\* GenerateShuffledCardDeck: fewer than 4 players play without the Stars
SuitsFor(n) == IF n < 4 THEN [i \in 1..NumNoStars |-> i] ELSE [i \in 1..NumAllSuits |-> i]

\* Card.GetCards over RankSet.AllRanks in full
GetCardsFull(suitSet) ==
    [i \in 1..(Len(FullRanks) * Len(suitSet)) |->
        [Rank |-> FullRanks[((i - 1) \div Len(suitSet)) + 1],
         Suit |-> suitSet[((i - 1) % Len(suitSet)) + 1]]]

\* s with its first k elements moved to the back
Rotate(s, k) == SubSeq(s, k + 1, Len(s)) \o SubSeq(s, 1, k)

\* some of the orders cardDeck.Shuffle(random) can leave
SetupShuffles(s) ==
    {Rotate(s, k) : k \in {0, 1, 7, 30}} \cup {Reverse(Rotate(s, k)) : k \in {0, 1, 7, 30}}

\* PlaceOkus.Perform: the player's okus goes on the Illimat
PlaceOkusPerform(l, a) == [l EXCEPT !.IllimatOkuses = Append(@, a.actor)]

\* new Game(...): the GameState constructor has run
SetupInit ==
    /\ nPlayers \in MinPlayers..MaxPlayers
    /\ deck \in SetupShuffles(GetCardsFull(SuitsFor(nPlayers)))
    /\ deck0 = deck
    /\ calls = 0
    /\ hand = [p \in PlayerIds |-> <<>>]
    /\ piles = [f \in FieldIds |-> <<>>]
    /\ index = [f \in FieldIds |-> <<>>]
    /\ revealed = {} /\ loose = {}
    /\ completed = <<>>
    /\ pending = ConstructedPending(nPlayers)
    /\ err = "none"
    /\ last = NoCall
    /\ vCards = <<>> /\ vValues = <<>> /\ vPc = "idle"
    /\ psv = [pc |-> "idle"]
    /\ dk = [pc |-> "idle"]
    /\ ConstructedTable
    /\ lum = [LuminaryDeck |-> [i \in 1..NumLuminaries |-> i],
              FieldLuminary |-> [f \in FieldIds |-> NoLuminary],
              IllimatOkuses |-> <<>>]

\* the driver: PendingActions.Dequeue(), Perform, CompletedActions.Push
DriverStep ==
    /\ err = "none"
    /\ pending # <<>>
    /\ LET a == Head(pending)
       IN /\ CASE a.kind \in {"SeedField", "DealHand"} ->
                    /\ SetG(Perform(G, a).g)
                    /\ UNCHANGED <<lum, ActivePlayerIndex>>
               [] a.kind = "PlaceOkus" ->
                    /\ lum' = PlaceOkusPerform(lum, a)
                    /\ UNCHANGED <<deck, hand, piles, index, revealed, err, ActivePlayerIndex>>
               [] a.kind = "DealLuminary" ->
                    /\ lum' = DealLuminaryPerform(
                                  lum, LuminaryAction("DealLuminary", a.actor, a.target)).lum
                    /\ UNCHANGED <<deck, hand, piles, index, revealed, err, ActivePlayerIndex>>
               [] a.kind = "BeginTurn" ->
                    /\ ActivePlayerIndex' = BeginTurnPerform(a.actor)
                    /\ UNCHANGED <<deck, hand, piles, index, revealed, err, lum>>
          /\ completed' = Append(completed, a)
          /\ last' = [NoCall EXCEPT !.op = "Driver", !.a = a]
    /\ pending' = Tail(pending)
    /\ UNCHANGED <<nPlayers, loose, deck0, calls, vCards, vValues, vPc, dk, psv,
                   Seasons, IllimatLockers>>

SetupNext == DriverStep

SpecSetup == SetupInit /\ [][SetupNext]_vars

-----------------------------------------------------------------------------
(* Claims about the reversible card actions *)

\* the driver's pop-and-unwind of the top k completed actions
RECURSIVE UnwindTopN(_, _, _)
UnwindTopN(g, stack, k) ==
    IF k = 0 THEN g
    ELSE UnwindTopN(Unwind(g, stack[Len(stack)]), SubSeq(stack, 1, Len(stack) - 1), k - 1)

\* C1: for any sequence of SeedField, DealHand and DrawUp actions performed in
\* order and pushed on the completed stack, unwinding them in strict LIFO order
\* restores the deck's order, every hand, every field's pile list and every
\* card's revealed flag to their values before the first Perform of the sequence.
C1_LifoUnwindRestores ==
    \A k \in 1..Len(completed) :
        LET g == UnwindTopN(G, completed, k)
            before == completed[Len(completed) - k + 1].pre
        IN /\ g.err = "none"
           /\ g.deck = before.deck
           /\ g.hand = before.hand
           /\ g.piles = before.piles
           /\ g.revealed = before.revealed

\* a SeedField, a DealHand and a DrawUp, each having moved cards, were performed
\* and then unwound one after the other, down to the empty stack
C1_Witness ==
    /\ completed = <<>>
    /\ err = "none"
    /\ Len(last.run) = 3
    /\ {last.run[i] : i \in 1..3} = {"SeedField", "DealHand", "DrawUp"}
    /\ deck = deck0
    /\ \A p \in PlayerIds : hand[p] = <<>>

\* C2: Perform followed by Unwind of a SeedField restores the field's Piles and
\* the deck's order, whatever the deck holds (also fewer cards than the seed count).
C2_SeedFieldRoundTrip ==
    \A f \in FieldIds, n \in RevealedCounts :
        LET r == SeedFieldPerform(G, Action("SeedField", 0, f, n))
            g == SeedFieldUnwind(r.g, r.a)
        IN /\ g.err = err
           /\ g.piles = piles
           /\ g.deck = deck

\* a SeedField that found fewer cards than its seed count was performed and unwound
C2_Witness ==
    /\ last.op = "Unwind"
    /\ last.a.kind = "SeedField"
    /\ Len(last.a.Cards) > 0
    /\ Len(last.a.Cards) < last.a.count
    /\ err = "none"
    /\ piles = last.a.pre.piles
    /\ deck = last.a.pre.deck

-----------------------------------------------------------------------------
(* Claims about InitialDeal *)

\* what the last InitialDeal.Perform appended to PendingActions
Enqueued == SubSeq(pending, Len(last.queue0) + 1, Len(pending))

Child(a) == <<a.kind, a.target, a.count>>

\* C9: InitialDeal.Perform in a 4-player game appends to PendingActions exactly
\* 16 actions, in this order, and nothing else: SeedField for fields 0..3,
\* DealHand(players[1],3), DealHand(players[2],4), DealHand(players[3],4),
\* DealHand(players[0],4), PlaceOkus for players 0..3, DealLuminary for fields 0..3.
C9_InitialDealOrder ==
    (last.op = "InitialDeal" /\ nPlayers = 4) =>
        /\ SubSeq(pending, 1, Len(last.queue0)) = last.queue0
        /\ [i \in 1..Len(Enqueued) |-> Child(Enqueued[i])] =
             << <<"SeedField", 0, 3>>, <<"SeedField", 1, 3>>,
                <<"SeedField", 2, 3>>, <<"SeedField", 3, 3>>,
                <<"DealHand", 1, 3>>, <<"DealHand", 2, 4>>,
                <<"DealHand", 3, 4>>, <<"DealHand", 0, 4>>,
                <<"PlaceOkus", 0, 0>>, <<"PlaceOkus", 1, 0>>,
                <<"PlaceOkus", 2, 0>>, <<"PlaceOkus", 3, 0>>,
                <<"DealLuminary", 0, 0>>, <<"DealLuminary", 1, 0>>,
                <<"DealLuminary", 2, 0>>, <<"DealLuminary", 3, 0>> >>

\* an InitialDeal was performed in a 4-player game whose queue still held actions
C9_Witness ==
    /\ last.op = "InitialDeal"
    /\ nPlayers = 4
    /\ last.queue0 # <<>>
    /\ Len(pending) = Len(last.queue0) + 16

\* C10: for every player count from 2 to 4 and every dealer, InitialDeal enqueues
\* exactly one DealHand per player: the player seated immediately after the dealer
\* is dealt 3 cards, every other player (the dealer too) is dealt 4, and the
\* dealer's DealHand is the last DealHand enqueued.
C10_DealHandsFollowDealer ==
    last.op = "InitialDeal" =>
        LET IsDeal(a) == a.kind = "DealHand"
            deals == SelectSeq(Enqueued, IsDeal)
            dealer == last.a.actor
            first == (dealer + 1) % nPlayers
        IN /\ Len(deals) = nPlayers
           /\ \A p \in PlayerIds : \E i \in 1..Len(deals) : deals[i].target = p
           /\ \A i \in 1..Len(deals) :
                  deals[i].count = (IF deals[i].target = first THEN 3 ELSE 4)
           /\ deals[Len(deals)].target = dealer

-----------------------------------------------------------------------------
(* Claims about Pile.Values *)

FoolsIn(cards) == Cardinality({i \in 1..Len(cards) : cards[i].Rank = Fool})
OthersSumIn(cards) ==
    SumSeq([i \in 1..Len(cards) |-> IF cards[i].Rank = Fool THEN 0 ELSE cards[i].Rank])

\* C3: for every pile with k Fools and non-Fool rank sum s, Pile.Values has
\* exactly k+1 elements, s+k, s+k+13, ..., s+14k, in ascending order; a pile
\* with no Fool has the single value s, [Fool] has [1, 14], [2, Fool] has [3, 16].
C3_ValuesFormula ==
    vPc = "built" =>
        LET k == FoolsIn(vCards)
            s == OthersSumIn(vCards)
        IN vValues = [i \in 1..(k + 1) |-> s + k + 13 * (i - 1)]

-----------------------------------------------------------------------------
(* Claims about Field.PileSetsByValue *)

\* the totals a list of piles can make, one value chosen from each pile's Values
RECURSIVE ChoiceSums(_)
ChoiceSums(ps) ==
    IF ps = <<>> THEN {0}
    ELSE {ps[1].Values[i] + t : i \in 1..Len(ps[1].Values), t \in ChoiceSums(Tail(ps))}

SetOf(ps) == {ps[i] : i \in 1..Len(ps)}

\* the piles of field f at the positions P, in field order
PilesAt(f, P) ==
    LET At(i) == i \in P
        pos == SelectSeq([i \in 1..Len(piles[f]) |-> i], At)
    IN [i \in 1..Len(pos) |-> piles[f][pos[i]]]

\* idx lists the set S of piles under key v
Listed(idx, S, v) ==
    \E e \in 1..Len(idx) :
        /\ idx[e].key = v
        /\ \E j \in 1..Len(idx[e].sets) :
              SetOf(idx[e].sets[j]) = S /\ Len(idx[e].sets[j]) = Cardinality(S)

\* C4: in every reachable state, for every field and value v, every non-empty
\* subset of the field's piles that can sum to v under some choice of one value
\* per pile is listed under key v in the field's PileSetsByValue.
C4_IndexComplete ==
    err = "none" =>
        \A f \in FieldIds :
            \A P \in (SUBSET (1..Len(piles[f]))) \ {{}} :
                \A v \in ChoiceSums(PilesAt(f, P)) :
                    Listed(index[f], SetOf(PilesAt(f, P)), v)

\* C5: in every reachable state, each subset listed under a key v of a field's
\* PileSetsByValue holds only piles of the field's Piles and can sum to v under
\* some choice of one value per member pile.  (No reachable state has a key.)
C5_IndexSound ==
    \A f \in FieldIds :
        \A e \in 1..Len(index[f]) :
            \A j \in 1..Len(index[f][e].sets) :
                /\ \A p \in SetOf(index[f][e].sets[j]) : Contains(piles[f], p)
                /\ index[f][e].key \in ChoiceSums(index[f][e].sets[j])

\* in every reachable state every field's PileSetsByValue has no entry at all
IndexEmpty == \A f \in FieldIds : index[f] = <<>>

\* C7: after Field.AddPile(p) the singleton subset [p] is recorded in
\* PileSetsByValue under each value of p.Values, also when the field held no
\* piles before the call.
C7_AddPileSeedsSingleton ==
    (last.op = "AddPile" /\ err = "none") =>
        \A i \in 1..Len(last.pile.Values) :
            Listed(index[last.field], {last.pile}, last.pile.Values[i])

PSVCorrect ==
    /\ \A e \in 1..Len(psv.values) :
          \A j \in 1..Len(psv.values[e].sets) :
              psv.values[e].key \in ChoiceSums(psv.values[e].sets[j])
    /\ \A count \in 0..(Pow2(Len(psv.piles)) - 1) :
          \A v \in ChoiceSums(GetSubsets(psv.piles, count)) :
              Listed(psv.values, SetOf(GetSubsets(psv.piles, count)), v)

\* C6: for every list of piles, GetPilesSetsValues returns a map that lists a
\* subset S under key v if and only if choosing one value from each member
\* pile's Values can sum to v.
C6_PilesSetsValuesListsSums == <>(psv.pc = "done" /\ PSVCorrect)

\* GetPilesSetsValues never returns: the first subset, the empty one, is
\* yielded by Cartesian for ever
PSVNeverReturns == psv.pc # "done" /\ psv.count = 0

-----------------------------------------------------------------------------
(* Claims about turns *)

\* the clockwise distances, from the position after ActivePlayerIndex, of the
\* other players who hold cards
HoldingAt == {d \in 1..(nPlayers - 1) : hand[CsMod(ActivePlayerIndex + d, nPlayers)] # <<>>}

\* C11: EndTurn.Perform, whenever some other player has a non-empty hand,
\* enqueues BeginTurn for the first such player found scanning clockwise from
\* the position after ActivePlayerIndex, for every player count from 2 to 4
\* and every clockwise distance from 1 to N-1.
C11_EndTurnFindsNextPlayer ==
    (last.op = "EndTurn" /\ HoldingAt # {}) =>
        LET d == CHOOSE x \in HoldingAt : \A y \in HoldingAt : x <= y
        IN \E k \in 1..Len(Enqueued) :
              /\ Enqueued[k].kind = "BeginTurn"
              /\ Enqueued[k].actor = CsMod(ActivePlayerIndex + d, nPlayers)

\* C12: EndTurn.Perform enqueues the round-scoring action only when no other
\* player has a non-empty hand, and it enqueues exactly one follow-up action:
\* a BeginTurn or the round scoring, never both.
C12_EndTurnEnqueuesOne ==
    last.op = "EndTurn" =>
        /\ Len(Enqueued) = 1
        /\ (\E k \in 1..Len(Enqueued) : Enqueued[k].kind = "ScoreRound") => HoldingAt = {}

\* C13: in every reachable state, after any sequence of BeginTurn and EndTurn
\* Performs and BeginTurn Unwinds, 0 <= ActivePlayerIndex < Players.Count.
C13_ActivePlayerIndexInRange ==
    ActivePlayerIndex >= 0 /\ ActivePlayerIndex < nPlayers

\* C14: BeginTurn.Perform sets ActivePlayerIndex to the player's position in
\* Players, and the Unwind of that BeginTurn right after its Perform restores
\* ActivePlayerIndex to its value before the Perform.
C14_BeginTurnRoundTrip ==
    (last.op = "Perform" /\ last.a.kind = "BeginTurn") =>
        /\ ActivePlayerIndex = last.a.actor
        /\ BeginTurnUnwind(last.a.actor, nPlayers) = last.a.pre

-----------------------------------------------------------------------------
(* Claims about ChangeSeason *)

\* how many times actor x is in the list of lockers
Copies(lockers, x) == Cardinality({i \in 1..Len(lockers) : lockers[i] = x})

\* the ring successor of a season
NextSeason(season) == (season + 1) % 4

\* C15: when IllimatLockers is empty, after ChangeSeason(actor, season,
\* fieldIndex).Perform the field at fieldIndex has Season = season and, for
\* each i in 1..3, the field at (fieldIndex + i) mod 4 has the season i steps
\* after season on the ring.
C15_PerformAlignsRing ==
    IllimatLockers = <<>> =>
        \A a \in AllChangeSeasons :
            LET t == ChangeSeasonPerform(Table, a).t
            IN \A i \in 0..3 :
                  t.Seasons[(a.FieldIndex + i) % 4] = (a.Season + i) % 4

\* a ChangeSeason performed with no lockers has turned the Illimat
C15_Witness ==
    /\ last.op = "Perform"
    /\ last.a.pre.IllimatLockers = <<>>
    /\ Seasons # last.a.pre.Seasons
    /\ Seasons[last.a.FieldIndex] = last.a.Season

\* C16: while IllimatLockers is non-empty no realignment occurs: a Perform
\* that starts with a non-empty lockers list, and an Unwind after which the
\* lockers list is still non-empty, leave the Season of all four fields
\* unchanged.
C16_LockedMeansNoRealign ==
    /\ IllimatLockers # <<>> =>
          \A a \in AllChangeSeasons : ChangeSeasonPerform(Table, a).t.Seasons = Seasons
    /\ completed # <<>> =>
          LET u == ChangeSeasonUnwind(Table, completed[Len(completed)])
          IN u.IllimatLockers # <<>> => u.Seasons = Seasons

\* a ChangeSeason that asked for another season was performed under a lock
C16_Witness ==
    /\ last.op = "Perform"
    /\ last.a.pre.IllimatLockers # <<>>
    /\ last.a.pre.Seasons[last.a.FieldIndex] # last.a.Season
    /\ Seasons = last.a.pre.Seasons

\* the positions in CompletedActions of the ChangeSeasons that lock the Illimat
LockingAt == {i \in 1..Len(completed) : completed[i].LockIllimat}

\* C17: as long as a locking ChangeSeason of A or of B is still on the
\* completed stack, the lockers list is non-empty and a ChangeSeason performed
\* by a third actor changes no field's season; once every locking action is
\* unwound the lockers list is empty and a ChangeSeason realigns the fields.
C17_LockHeldUntilAllUnwound ==
    /\ LockingAt # {} =>
          /\ IllimatLockers # <<>>
          /\ \A a \in AllChangeSeasons : ChangeSeasonPerform(Table, a).t.Seasons = Seasons
    /\ LockingAt = {} =>
          /\ IllimatLockers = <<>>
          /\ \A a \in AllChangeSeasons :
                ChangeSeasonPerform(Table, a).t.Seasons =
                    AlignSeasons(Seasons, a.FieldIndex, a.Season)

\* A and B have locked the Illimat and a third actor's ChangeSeason, asking
\* for another season, is on top of them
C17_Witness ==
    /\ Len(completed) = 3
    /\ completed[1].LockIllimat /\ completed[2].LockIllimat
    /\ completed[1].Actor # completed[2].Actor
    /\ completed[3].Actor \notin {completed[1].Actor, completed[2].Actor}
    /\ completed[3].Season # completed[3].pre.Seasons[completed[3].FieldIndex]
    /\ Seasons = completed[3].pre.Seasons

\* C18: a ChangeSeason performed from any lockers state and unwound while it
\* is the top of the completed stack leaves all four seasons as they were
\* before Perform, and every actor as many times in IllimatLockers as before.
C18_ChangeSeasonRoundTrip ==
    \A a \in AllChangeSeasons :
        LET r == ChangeSeasonPerform(Table, a)
            u == ChangeSeasonUnwind(r.t, r.a)
        IN /\ u.Seasons = Seasons
           /\ \A x \in LockActors :
                 Copies(u.IllimatLockers, x) = Copies(IllimatLockers, x)

\* a locking ChangeSeason that turned the Illimat has been unwound right
\* after its Perform
C18_Witness ==
    /\ last.op = "Unwind"
    /\ Len(last.run) = 1
    /\ last.a.LockIllimat
    /\ last.a.Season # last.a.PreviousSeason
    /\ last.a.pre.IllimatLockers = <<>>
    /\ Seasons = last.a.pre.Seasons
    /\ IllimatLockers = <<>>

\* C19: in every reachable state the seasons of fields 0..3 are a rotation
\* of the ring: each of the four seasons occurs exactly once and field
\* (i+1) mod 4 holds the ring successor of field i's season.
C19_SeasonsAreARotation ==
    /\ {Seasons[f] : f \in FieldIds} = AllSeasons
    /\ \A f \in FieldIds : Seasons[(f + 1) % 4] = NextSeason(Seasons[f])

\* an Unwind has turned the Illimat back
C19_Witness ==
    /\ last.op = "Unwind"
    /\ Seasons # ConstructedSeasons
    /\ last.a.pre.IllimatLockers = <<>>
    /\ last.a.Season # last.a.PreviousSeason
    /\ Seasons = last.a.pre.Seasons

\* C20: after any sequence of ChangeSeason Performs and Unwinds no actor
\* appears in IllimatLockers more than once.
C20_LockersAreASet ==
    \A x \in LockActors : Copies(IllimatLockers, x) <= 1

-----------------------------------------------------------------------------
(* Claims about Deck<T>, one caller at a time *)

\* the smaller of two integers
Min(a, b) == IF a < b THEN a ELSE b

\* the same elements, each as many times
SameBag(s, t) ==
    /\ Len(s) = Len(t)
    /\ \A i \in 1..Len(s) : Copies(s, s[i]) = Copies(t, s[i])

\* C21: DrawUpTo(n) on a deck of size m removes and returns exactly the first
\* min(n, m) cards in deck order (none for a negative n), leaves the remaining
\* cards in their original order and raises no error; DrawUpTo(0) returns an
\* empty sequence and leaves the deck unchanged.
C21_DrawUpToTakesFront ==
    (dk.pc = "returned" /\ dk.op = "DrawUpTo") =>
        LET m == Len(dk.Cards0)
            k == IF Min(dk.arg, m) < 0 THEN 0 ELSE Min(dk.arg, m)
        IN /\ dk.err = "none"
           /\ dk.ret = [i \in 1..k |-> dk.Cards0[i]]
           /\ dk.Cards = [i \in 1..(m - k) |-> dk.Cards0[k + i]]
           /\ dk.arg = 0 => (dk.ret = <<>> /\ dk.Cards = dk.Cards0)

\* DrawUpTo was asked for more cards than a deck of several cards held
C21_Witness ==
    /\ dk.pc = "returned" /\ dk.op = "DrawUpTo"
    /\ Len(dk.Cards0) >= 2
    /\ dk.arg > Len(dk.Cards0)
    /\ dk.ret = dk.Cards0
    /\ dk.Cards = <<>>

\* C22: DrawSpecific(card) on a deck containing one or more elements equal to
\* card removes and returns the first such element and leaves every other
\* element in the deck in its original relative order.
C22_DrawSpecificTakesFirst ==
    (dk.pc = "returned" /\ dk.op = "DrawSpecific" /\ Matches(dk.Cards0, dk.arg) # {}) =>
        LET first == CHOOSE i \in Matches(dk.Cards0, dk.arg) :
                         \A j \in Matches(dk.Cards0, dk.arg) : i <= j
        IN /\ dk.err = "none"
           /\ dk.ret = [Key |-> first - 1, Value |-> dk.arg]
           /\ dk.Cards = RemoveAt(dk.Cards0, first)

\* C23: DrawSpecific(card) on a deck with no element equal to card fails with
\* the not-found ArgumentException and leaves the deck's contents and order
\* unchanged.
C23_DrawSpecificAbsentFails ==
    (dk.pc = "returned" /\ dk.op = "DrawSpecific" /\ Matches(dk.Cards0, dk.arg) = {}) =>
        /\ dk.err = "ArgumentException"
        /\ dk.Cards = dk.Cards0

\* DrawSpecific was asked for a card that a deck of several cards did not hold
C23_Witness ==
    /\ dk.pc = "returned" /\ dk.op = "DrawSpecific"
    /\ Len(dk.Cards0) >= 2
    /\ Matches(dk.Cards0, dk.arg) = {}
    /\ dk.err = "ArgumentException"

\* C24: Shuffle leaves the multiset of cards in the deck unchanged for every
\* sequence of RNG outcomes, at the end of the shuffle and after every swap.
C24_ShuffleKeepsMultiset ==
    dk.op = "Shuffle" => SameBag(dk.Cards, dk.Cards0)

\* a swap has moved cards and the shuffle is still under way
C24_Witness ==
    /\ dk.op = "Shuffle" /\ dk.pc = "shuffling"
    /\ dk.n > 1
    /\ dk.draws # <<>>
    /\ dk.Cards # dk.Cards0

\* Shuffle run to its end on cards with the RNG outcomes ks, from n on
RECURSIVE ShuffleFrom(_, _, _)
ShuffleFrom(cards, n, ks) ==
    IF n <= 1 \/ ks = <<>> THEN cards
    ELSE ShuffleFrom(Swap(cards, n - 1, ks[1]), n - 1, Tail(ks))

\* every sequence of RNG outcomes a Shuffle of n cards can see
RECURSIVE DrawSeqs(_)
DrawSeqs(n) ==
    IF n <= 1 THEN {<<>>}
    ELSE {<<k>> \o rest : k \in RandomNext(n - 1), rest \in DrawSeqs(n - 1)}

\* every rearrangement of cards
Rearrangements(cards) ==
    LET n == Len(cards)
        bij == {f \in [1..n -> 1..n] : \A i, j \in 1..n : f[i] = f[j] => i = j}
    IN {[i \in 1..n |-> cards[f[i]]] : f \in bij}

\* C25: for a deck of n distinct cards, the results of Shuffle over all
\* sequences of RNG draws are exactly the n! permutations, each produced by
\* exactly one sequence of draws; a finished Shuffle holds the result of
\* its own draws.
C25_ShuffleIsABijection ==
    /\ (\A i, j \in 1..Len(dk.Cards0) : dk.Cards0[i] = dk.Cards0[j] => i = j) =>
          LET n == Len(dk.Cards0)
          IN /\ {ShuffleFrom(dk.Cards0, n, ks) : ks \in DrawSeqs(n)} = Rearrangements(dk.Cards0)
             /\ \A ks1, ks2 \in DrawSeqs(n) :
                   ShuffleFrom(dk.Cards0, n, ks1) = ShuffleFrom(dk.Cards0, n, ks2) => ks1 = ks2
    /\ (dk.op = "Shuffle" /\ dk.pc = "returned") =>
          /\ dk.draws \in DrawSeqs(Len(dk.Cards0))
          /\ dk.Cards = ShuffleFrom(dk.Cards0, Len(dk.Cards0), dk.draws)

\* a Shuffle of three or more distinct cards has returned another order
C25_Witness ==
    /\ dk.op = "Shuffle" /\ dk.pc = "returned"
    /\ Len(dk.Cards0) >= 3
    /\ \A i, j \in 1..Len(dk.Cards0) : dk.Cards0[i] = dk.Cards0[j] => i = j
    /\ dk.Cards # dk.Cards0

-----------------------------------------------------------------------------
(* Claims about Deck<T> under concurrent callers *)

\* every thread has returned or thrown
RaceOver == \A t \in Threads : dk.th[t].pc \in {"done", "failed"}

\* C26: when two callers invoke DrawUpTo concurrently on the same deck, no call
\* raises an error, no card is returned to more than one caller, and the cards
\* returned together with the cards remaining are exactly the original deck,
\* also when the total requested exceeds the deck size.
C26_ConcurrentDrawsAreSafe ==
    (\A t \in Threads : dk.th[t].call = "DrawUpTo") =>
        /\ \A t \in Threads : dk.th[t].err = "none"
        /\ RaceOver => SameBag(dk.th[1].ret \o dk.th[2].ret \o dk.Cards, dk.Cards0)

\* C27: a Shuffle running concurrently with a DrawUpTo on the same deck neither
\* loses nor duplicates a card and raises no error: the cards drawn together
\* with the cards remaining are exactly the original multiset.
C27_ShuffleWithDrawIsSafe ==
    (\E t \in Threads : dk.th[t].call = "Shuffle") =>
        /\ \A t \in Threads : dk.th[t].err = "none"
        /\ SameBag(dk.th[1].draw \o dk.Cards, dk.Cards0)

-----------------------------------------------------------------------------
(* Claims about DrawUp and about where the cards are *)

\* C28: DrawUp.Perform for a player holding h cards with d cards in the deck
\* leaves the player holding h + min(max(4 - h, 0), d) cards, the added cards
\* being the front cards of the deck in order; a player already holding 4 or
\* more cards draws nothing and both deck and hand are unchanged.
C28_DrawUpFillsToFour ==
    (last.op = "Perform" /\ last.a.kind = "DrawUp") =>
        LET p == last.a.actor
            before == last.a.pre
            h == Len(before.hand[p])
            d == Len(before.deck)
            k == Min(IF 4 - h > 0 THEN 4 - h ELSE 0, d)
        IN /\ Len(hand[p]) = h + k
           /\ hand[p] = before.hand[p] \o [i \in 1..k |-> before.deck[i]]
           /\ deck = [i \in 1..(d - k) |-> before.deck[k + i]]
           /\ \A q \in PlayerIds \ {p} : hand[q] = before.hand[q]
           /\ h >= 4 => (deck = before.deck /\ hand = before.hand)

\* a player holding fewer than four cards drew up to four from a deck that
\* held more than the player needed
C28_Witness ==
    /\ last.op = "Perform" /\ last.a.kind = "DrawUp"
    /\ Len(last.a.pre.hand[last.a.actor]) > 0
    /\ Len(last.a.pre.hand[last.a.actor]) < 4
    /\ Len(last.a.pre.deck) > 4 - Len(last.a.pre.hand[last.a.actor])
    /\ Len(hand[last.a.actor]) = 4
    /\ Len(deck) = Len(last.a.pre.deck) - (4 - Len(last.a.pre.hand[last.a.actor]))

\* the sequences of a sequence, end to end
RECURSIVE Concat(_)
Concat(ss) == IF ss = <<>> THEN <<>> ELSE Head(ss) \o Concat(Tail(ss))

\* every card that is in the deck, in a hand or in a pile of a field, once
\* for each place it is in
Placed ==
    deck
    \o Concat([i \in 1..nPlayers |-> hand[i - 1]])
    \o Concat([i \in 1..NumFields |->
                  Concat([j \in 1..Len(piles[i - 1]) |-> piles[i - 1][j].Cards])])

\* C29: in every reachable state, after any sequence of Performs and LIFO
\* Unwinds of SeedField, DealHand and DrawUp, every card of the initial deck is
\* in exactly one place among the card deck, a player's hand and a field pile
\* (these actions never touch a harvest pile): no card is lost and no card is
\* in two places.
C29_EveryCardInOnePlace ==
    /\ Len(Placed) = Len(deck0)
    /\ \A i \in 1..Len(deck0) : Copies(Placed, deck0[i]) = 1

\* two actions took cards off the deck, into a hand or a field, and the Unwind
\* of the second moved its cards back: cards are in the deck and outside it
C29_Witness ==
    /\ last.op = "Unwind"
    /\ last.a.Cards # <<>>
    /\ Len(completed) = 1
    /\ deck # <<>>
    /\ Len(deck) < Len(deck0)
    /\ \/ \E p \in PlayerIds : hand[p] # <<>>
       \/ \E f \in FieldIds : piles[f] # <<>>

-----------------------------------------------------------------------------
(* Claims about the composite actions *)

\* everything of the World but the pending queue
Frame(w) == [w EXCEPT !.PendingActions = <<>>]

\* C30: composite actions mutate nothing but the pending queue:
\* InitialDeal.Perform and EndTurn.Perform leave the card deck, every hand,
\* every field, IllimatLockers, ActivePlayerIndex and CompletedActions
\* unchanged, whoever deals and whatever the players hold (neither method
\* names the luminary deck or the okus tokens).
C30_CompositesOnlyEnqueue ==
    /\ \A dealer \in PlayerIds :
          Frame(InitialDealOnState(World, nPlayers, dealer)) = Frame(World)
    /\ Frame(EndTurnOnState(World, nPlayers)) = Frame(World)
    /\ last.op \in {"InitialDeal", "EndTurn"} =>
          /\ completed # <<>>
          /\ ActivePlayerIndex = BeginTurnPerform(completed[1].actor)

\* an EndTurn found a next player and enqueued that player's BeginTurn behind
\* what was left of an InitialDeal; the active player is still the one whose
\* BeginTurn is on CompletedActions
C30_Witness ==
    /\ last.op = "EndTurn"
    /\ last.queue0 # <<>>
    /\ last.queue0[1].kind \notin {"BeginTurn", "ScoreRound"}
    /\ Len(pending) = Len(last.queue0) + 2
    /\ pending[Len(last.queue0) + 1].kind = "BeginTurn"
    /\ pending[Len(last.queue0) + 1].actor # ActivePlayerIndex
    /\ ActivePlayerIndex # 0
    /\ completed # <<>>

-----------------------------------------------------------------------------
(* Claims about luminaries and about the unimplemented action kinds *)

\* C31: Perform and Unwind of each unimplemented action kind (HarvestCards,
\* SowCards, StockpileCards, StealOkus, StealCardFromHand, ExchangeCard,
\* CollectOkus, CollectLuminary) raise an error instead of silently doing
\* nothing, and leave GameState and the pending and completed queues unchanged.
C31_UnimplementedKindsThrow ==
    last.op \in {"PerformUnimplemented", "UnwindUnimplemented"} =>
        /\ last.a.kind \in UnimplementedKinds
        /\ err = "NotImplementedException"
        /\ Everything = last.a.pre

\* Perform of an unimplemented kind was called in a game with a luminary in a
\* field and actions on CompletedActions, and threw
C31_Witness ==
    /\ last.op = "PerformUnimplemented"
    /\ last.a.kind = "HarvestCards"
    /\ completed # <<>>
    /\ \E f \in FieldIds : lum.FieldLuminary[f] # NoLuminary
    /\ err = "NotImplementedException"

\* C35: Perform followed by Unwind of DiscardLuminary on a field that holds a
\* luminary restores that same luminary to the field; on a field with no
\* luminary both calls leave the field unchanged.
C35_DiscardLuminaryRoundTrip ==
    \A f \in FieldIds :
        LET r == DiscardLuminaryPerform(lum, LuminaryAction("DiscardLuminary", 0, f))
            back == DiscardLuminaryUnwind(r.lum, r.a)
        IN /\ back.FieldLuminary = lum.FieldLuminary
           /\ lum.FieldLuminary[f] = NoLuminary => r.lum.FieldLuminary = lum.FieldLuminary

\* C36: Perform followed by Unwind of DealLuminary restores the luminary
\* deck's order and the field's Luminary to their values before Perform,
\* including when the field already held a luminary and when the luminary
\* deck was empty.
C36_DealLuminaryRoundTrip ==
    \A f \in FieldIds :
        LET r == DealLuminaryPerform(lum, LuminaryAction("DealLuminary", 0, f))
            back == DealLuminaryUnwind(r.lum, r.a)
        IN /\ back.LuminaryDeck = lum.LuminaryDeck
           /\ back.FieldLuminary = lum.FieldLuminary

-----------------------------------------------------------------------------
(* Claims about ChangeSeason without a lock *)

\* C38: unwinding a ChangeSeason that was created with lockIllimat = false
\* never removes any actor from IllimatLockers, even when its own actor
\* currently holds a lock taken by another ChangeSeason.
C38_UnlockedUnwindKeepsLockers ==
    /\ \A actor \in LockActors, season \in SeasonsTurned, f \in FieldsTurned :
          ChangeSeasonUnwind(Table, ChangeSeason(actor, season, f, FALSE)).IllimatLockers
              = IllimatLockers
    /\ (completed # <<>> /\ ~completed[Len(completed)].LockIllimat) =>
          ChangeSeasonUnwind(Table, completed[Len(completed)]).IllimatLockers = IllimatLockers
    /\ (last.op = "Unwind" /\ ~last.a.LockIllimat) =>
          \A x \in LockActors :
              Copies(IllimatLockers, x) = Copies(last.a.pre.IllimatLockers, x)

\* a ChangeSeason without a lock was unwound while its own actor held a lock
\* taken by an earlier ChangeSeason; the actor still holds it
C38_Witness ==
    /\ last.op = "Unwind"
    /\ ~last.a.LockIllimat
    /\ Copies(IllimatLockers, last.a.Actor) > 0
    /\ \E i \in 1..Len(completed) :
          completed[i].LockIllimat /\ completed[i].Actor = last.a.Actor

-----------------------------------------------------------------------------
(* Claims about Unwind out of order *)

\* C32: calling Unwind on an action that is not the top of the completed
\* stack, or on an action that was never performed, is reported as an
\* invariant-violation error and leaves GameState unchanged (no lockers
\* removed, no seasons realigned, no ActivePlayerIndex change, no cards moved).
C32_UnwindOutOfOrderIsRefused ==
    last.op = "UnwindOutOfOrder" =>
        /\ err = "InvariantViolation"
        /\ ActivePlayerIndex = last.a.pre.ActivePlayerIndex
        /\ Table = last.a.pre.Table

-----------------------------------------------------------------------------
(* Claims about unwinding a composite action *)

\* C37: Perform followed by Unwind of a composite action (InitialDeal,
\* EndTurn) completes without error and restores PendingActions to its
\* contents before Perform, i.e. the child actions it enqueued are removed
\* again.
C37_CompositeRoundTrip ==
    last.op = "UnwindComposite" =>
        /\ err = "none"
        /\ pending = last.queue0

-----------------------------------------------------------------------------
(* Claims about termination *)

\* C33: GetPilesSetsValues, and the subset enumeration and Cartesian product
\* it is built on, terminate after finitely many steps for every finite list
\* of piles, including the empty list and lists containing a pile whose
\* Values list is empty.
C33_PilesSetsValuesTerminates == <>(psv.pc = "done")

-----------------------------------------------------------------------------
(* Claims about setting up the game *)

\* C34: after the driver has performed, in FIFO order, every action pending in
\* a newly constructed 4-player Game, each of the four fields holds exactly 3
\* single-card revealed piles and one luminary, the player after the dealer
\* holds 3 cards and every other player holds 4, the card deck holds the
\* remaining 38 of 65 cards, and ActivePlayerIndex is the index of the player
\* after the dealer (who goes first).
C34_SetupOfFour ==
    (nPlayers = 4 /\ pending = <<>>) =>
        /\ \A f \in FieldIds :
              /\ Len(piles[f]) = 3
              /\ \A j \in 1..Len(piles[f]) :
                    /\ Len(piles[f][j].Cards) = 1
                    /\ piles[f][j].Cards[1] \in revealed
              /\ lum.FieldLuminary[f] # NoLuminary
        /\ Len(hand[1]) = 3
        /\ \A p \in PlayerIds \ {1} : Len(hand[p]) = 4
        /\ Len(deck0) = 65
        /\ Len(deck) = 38
        /\ deck = SubSeq(deck0, 28, 65)
        /\ ActivePlayerIndex = 1
        /\ err = "none"

\* the driver has emptied the queue of a 4-player game: 4 SeedField, 4
\* DealHand, 4 PlaceOkus, 4 DealLuminary and the first BeginTurn
C34_Witness ==
    /\ nPlayers = 4
    /\ pending = <<>>
    /\ Len(completed) = 17
    /\ last.op = "Driver" /\ last.a.kind = "BeginTurn"
    /\ Len(lum.IllimatOkuses) = 4

====
